---- MODULE Spec2Model ----
\* CDT cache-read benchmark (test/cdt-test.spec.ts): the iteration loop of the
\* test 'Run CDT performance test iterations', the session runner
\* executeAction, the cache flush, the result parser, the statistics and the
\* report, as one state machine.  One thread of control: every action is the
\* code between two await points (or one synchronous call).
EXTENDS Integers, Sequences, FiniteSets, TLC

\* ---------------------------------------------------------------- values
\* JavaScript's undefined and null, and numbers, as tagged values.
Undefined == [t |-> "undefined"]
Null == [t |-> "null"]
Num(n) == [t |-> "number", v |-> n]

\* const ITERATIONS = 2
ITERATIONS == 2

\* interface TestResult: the fields the test reads (status, contentEncoding,
\* transferSize, duration, deliveryType) and the action echoed by the page.
\* Optional string fields hold "undefined" when absent and "null" when null.
TestResult(action, status, enc, ts, dur, dt) ==
  [action |-> action, status |-> status, contentEncoding |-> enc,
   transferSize |-> ts, duration |-> dur, deliveryType |-> dt]

\* An error outcome carries no network/cache descriptor.
ErrorResult(action) ==
  TestResult(action, "error", "undefined", Undefined, Undefined, "undefined")

\* What cdt-test.html may report for ?action=init: ok or error, no descriptor.
InitResults ==
  { TestResult("init", "ok", "undefined", Undefined, Undefined, "undefined"),
    ErrorResult("init") }

\* Outcomes of a load fetched over the network: a transfer size, a duration,
\* deliveryType "network" (or the empty value browsers report as null).
NetworkResults(action) ==
  IF action = "load_base"
  THEN { TestResult(action, "ok", "br", Num(10000), Num(9), "network"),
         TestResult(action, "ok", "br", Num(6000), Num(9), "network"),
         TestResult(action, "ok", "br", Undefined, Num(9), "null") }
  ELSE { TestResult(action, "ok", "dcb", Num(5000), Num(9), "network"),
         TestResult(action, "ok", "dcb", Num(4000), Num(9), "network"),
         TestResult(action, "ok", "dcb", Null, Num(9), "undefined"),
         TestResult(action, "ok", "br", Num(6000), Num(9), "network"),
         TestResult(action, "ok", "br", Num(4000), Num(9), "network"),
         TestResult(action, "ok", "undefined", Num(4000), Num(9), "network") }

\* Outcomes of a load served from the browser cache: transferSize 0, a
\* duration that is a number, null or absent, and for the diff no
\* contentEncoding.
CacheResults(action) ==
  IF action = "load_base"
  THEN { TestResult(action, "ok", "br", Num(0), d, "cache") :
           d \in {Num(5), Num(0), Undefined} }
  ELSE { TestResult(action, "ok", "undefined", Num(0), d, "cache") :
           d \in {Num(7), Null, Undefined} }

\* Every outcome the page script may report for an action.
PageResults(action) ==
  IF action = "init" THEN InitResults
  ELSE {ErrorResult(action)} \cup NetworkResults(action) \cup CacheResults(action)

\* ---------------------------------------------------------- console lines
\* A console line: whether it starts with 'CDT_TEST_RESULT:' and what
\* JSON.parse makes of the rest (a value, or a SyntaxError).
SentinelLine(r) == [sentinel |-> TRUE, json |-> [ok |-> TRUE, value |-> r]]
MalformedLine == [sentinel |-> TRUE, json |-> [ok |-> FALSE]]
NoiseLine == [sentinel |-> FALSE, json |-> [ok |-> FALSE]]

\* Mutant: the scan keeps the last result line that parses, not the first.
parseTestResult_Last(msgs) ==
  LET parsed == { k \in 1..Len(msgs) : msgs[k].sentinel /\ msgs[k].json.ok }
  IN  IF parsed = {} THEN Null
      ELSE msgs[CHOOSE k \in parsed : \A j \in parsed : j <= k].json.value

\* Mutant: the try around the loop, so the first result line that does not
\* parse ends the scan with null.
RECURSIVE parseTestResult_StopAtMalformed(_)
parseTestResult_StopAtMalformed(msgs) ==
  IF msgs = <<>> THEN Null
  ELSE IF Head(msgs).sentinel
       THEN IF Head(msgs).json.ok THEN Head(msgs).json.value ELSE Null
       ELSE parseTestResult_StopAtMalformed(Tail(msgs))

\* function parseTestResult(consoleMessages): the value decoded from the first
\* sentinel line whose payload parses; null when there is none.
RECURSIVE parseTestResult(_)
parseTestResult(msgs) ==
  IF msgs = <<>> THEN Null
  ELSE IF Head(msgs).sentinel /\ Head(msgs).json.ok
       THEN Head(msgs).json.value
       ELSE parseTestResult(Tail(msgs))

\* result?.status
statusOf(result) == IF result = Null THEN "undefined" ELSE result.status

\* x || 0 on an optional number
orZero(x) == IF x.t = "number" THEN x.v ELSE 0

\* ------------------------------------------------------------------ state
VARIABLES
  pc,               \* where the test body is
  i,                \* the loop counter
  step,             \* the step of the iteration being run
  iterationResult,  \* the record of the running iteration
  allResults,       \* the records of the completed iterations
  baseCacheTimes,   \* base cache-read samples
  diffCacheTimes,   \* diff cache-read samples
  epc,              \* where executeAction is
  action,           \* executeAction's action parameter
  context,          \* executeAction's browser context
  page,             \* executeAction's page
  consoleMessages,  \* executeAction's captured console lines
  thrown,           \* the error the running call is propagating
  ret,              \* what the last executeAction returned (.result)
  stats,            \* baseCacheStats, diffCacheStats
  report,           \* the formatted report
  flushes,          \* flushFsCache calls made
  flushFailures,    \* flushFsCache calls whose execSync threw
  sessions,         \* launchPersistentContext calls made
  openContexts,     \* contexts launched whose close() has not settled yet
  openPages,        \* pages opened whose close() has not settled yet
  cacheDirOverride, \* process.env.CDT_CACHE_DIR is set (CACHE_DIR is then
                    \* outside USER_DATA_DIR)
  userDataDir,      \* USER_DATA_DIR: whether it exists and the sessions
                    \* whose profile files it holds (0: an earlier run)
  cacheDir,         \* CACHE_DIR: whether it exists and the sessions whose
                    \* cache entries it holds (0: an earlier run)
  wipes,            \* fs.rmSync(USER_DATA_DIR) calls that removed it
  spc,              \* where run-perf-sweep.sh is ("none": it is not running)
  START_DELAY,      \* ${1:-1}
  END_DELAY,        \* ${2:-50}
  INCREMENT,        \* ${3:-10}
  delay,            \* main's local delay
  test_count,       \* main's local test_count
  total_tests,      \* main's local total_tests
  throughput,       \* run_test_iteration's local throughput
  timings,          \* run_test_iteration's dcb_time and brotli_time
  DELAYS,           \* the five result arrays
  THROUGHPUTS,
  DCB_READ_TIMES,
  BROTLI_READ_TIMES,
  GAPS,
  RESULTS_FILE,     \* the CSV file: its rows after the header
  REPORT_FILE       \* the report file: its table rows

vars == <<pc, i, step, iterationResult, allResults, baseCacheTimes,
          diffCacheTimes, epc, action, context, page, consoleMessages,
          thrown, ret, stats, report, flushes, flushFailures, sessions,
          openContexts, openPages, cacheDirOverride, userDataDir, cacheDir,
          wipes, spc, START_DELAY, END_DELAY, INCREMENT, delay, test_count,
          total_tests, throughput, timings, DELAYS, THROUGHPUTS,
          DCB_READ_TIMES, BROTLI_READ_TIMES, GAPS, RESULTS_FILE, REPORT_FILE>>

orch == <<i, iterationResult, allResults, baseCacheTimes, diffCacheTimes>>
exec == <<epc, action, context, page, consoleMessages, ret>>
post == <<stats, report>>
live == <<openContexts, openPages>>
disk == <<cacheDirOverride, userDataDir, cacheDir, wipes>>
args == <<START_DELAY, END_DELAY, INCREMENT>>
arrays == <<DELAYS, THROUGHPUTS, DCB_READ_TIMES, BROTLI_READ_TIMES, GAPS>>
sweep == <<spc, START_DELAY, END_DELAY, INCREMENT, delay, test_count,
           total_tests, throughput, timings, DELAYS, THROUGHPUTS,
           DCB_READ_TIMES, BROTLI_READ_TIMES, GAPS, RESULTS_FILE,
           REPORT_FILE>>

Steps == <<"Init", "LoadBase", "LoadDiff", "ValidateCDT", "LoadDiffCached",
           "LoadBaseCached">>

\* The action each session step passes to executeAction.
ActionOf(s) ==
  CASE s = "Init" -> "init"
    [] s = "LoadBase" -> "load_base"
    [] s = "LoadDiff" -> "load_diff"
    [] s = "LoadDiffCached" -> "load_diff"
    [] s = "LoadBaseCached" -> "load_base"

NoStats == [base |-> Null, diff |-> Null]

\* A directory holding the files written by the sessions in entries, and a
\* path where no directory exists.
Dir(entries) == [exists |-> TRUE, entries |-> entries]
NoDir == [exists |-> FALSE, entries |-> {}]

\* A file holding rows, and a path where no file exists.
File(rows) == [exists |-> TRUE, rows |-> rows]
NoFile == [exists |-> FALSE, rows |-> <<>>]

\* The test run on its own (npm test): run-perf-sweep.sh is not running; its
\* variables hold their defaults and its arrays are empty.
NoSweep ==
  /\ spc = "none"
  /\ START_DELAY = 1 /\ END_DELAY = 50 /\ INCREMENT = 10
  /\ delay = Null /\ test_count = Null /\ total_tests = Null
  /\ throughput = Null /\ timings = Null
  /\ DELAYS = <<>> /\ THROUGHPUTS = <<>> /\ DCB_READ_TIMES = <<>>
  /\ BROTLI_READ_TIMES = <<>> /\ GAPS = <<>>
  /\ RESULTS_FILE = NoFile /\ REPORT_FILE = NoFile

\* The state when the test body starts, with CDT_CACHE_DIR set or not; both
\* directories hold what an earlier run left behind.
TestStart(override) ==
  /\ pc = "loop"
  /\ i = 1
  /\ step = "none"
  /\ iterationResult = Null
  /\ allResults = <<>>
  /\ baseCacheTimes = <<>>
  /\ diffCacheTimes = <<>>
  /\ epc = "idle"
  /\ action = "none"
  /\ context = "none"
  /\ page = "none"
  /\ consoleMessages = <<>>
  /\ thrown = "none"
  /\ ret = Null
  /\ stats = NoStats
  /\ report = Null
  /\ flushes = 0
  /\ flushFailures = 0
  /\ sessions = 0
  /\ openContexts = 0
  /\ openPages = 0
  /\ cacheDirOverride = override
  /\ userDataDir = Dir({0})
  /\ cacheDir = Dir({0})
  /\ wipes = 0

Start(override) == TestStart(override) /\ NoSweep

\* CACHE_DIR = process.env.CDT_CACHE_DIR || path.join(USER_DATA_DIR, 'Cache'):
\* the default, with the variable unset.
Init == Start(FALSE)

\* The test started with or without CDT_CACHE_DIR in its environment.
InitEnv == \E override \in BOOLEAN : Start(override)


\* ------------------------------------------------------------- the gates
\* Mutant: the status gate without optional chaining's null case
\* (result && result.status !== 'ok'), so an absent outcome passes.
StatusOk_NullPasses(result) == result = Null \/ result.status = "ok"

\* result?.status !== 'ok' is the failure of every session step's gate.
StatusOk(result) == statusOf(result) = "ok"

\* Mutant: the encoding check accepting any encoding that is reported.
EncodingOk_AnyEncoding(diff) == diff.contentEncoding # "undefined"

\* diffEncoding !== 'dcb' fails the CDT validation.
EncodingOk(diff) == diff.contentEncoding = "dcb"

\* Mutant: the size check with <= for <, which rejects a ratio of exactly 2.
RatioOk_Strict(base, diff) ==
  ~(orZero(base.transferSize) <= orZero(diff.transferSize) * 2)

\* Mutant: the size check demanding a diff size that was reported and is
\* positive.
RatioOk_PositiveDiff(base, diff) ==
  /\ orZero(diff.transferSize) > 0
  /\ ~(orZero(base.transferSize) < orZero(diff.transferSize) * 2)

\* baseSize < diffSize * 2 fails the CDT validation.
RatioOk(base, diff) ==
  ~(orZero(base.transferSize) < orZero(diff.transferSize) * 2)

\* Mutant: the delivery gate testing for 'network' instead of for 'cache'.
ServedFromCache_NotNetwork(result) == result.deliveryType # "network"

\* result.deliveryType !== 'cache' fails a cached step's gate.
ServedFromCache(result) == result.deliveryType = "cache"

\* duration !== null && duration !== undefined guards the push of a sample.
HasDuration(result) ==
  result.duration # Null /\ result.duration # Undefined

\* Mutant: the error is caught around the loop and the report still printed.
Throw_ThenReport(msg) == pc' = "stats" /\ thrown' = msg

\* throw new Error(msg): the test body ends with the error.
Throw(msg) == pc' = "aborted" /\ thrown' = msg

\* ------------------------------------------------------- the iteration loop
\* Mutant: the loop counting from 0 (for (let i = 0; i < ITERATIONS; i++)),
\* seen in the iteration field of the records.
LoopHead_ZeroBased ==
  /\ pc = "loop" /\ i <= ITERATIONS
  /\ iterationResult' = [iteration |-> i - 1, init |-> Null,
                         loadBase |-> Null, loadDiff |-> Null,
                         loadDiffCached |-> Null, loadBaseCached |-> Null]
  /\ step' = "Init"
  /\ pc' = "clear"
  /\ UNCHANGED <<i, allResults, baseCacheTimes, diffCacheTimes, thrown,
                 flushes, flushFailures, sessions>>
  /\ UNCHANGED exec /\ UNCHANGED post
  /\ UNCHANGED live /\ UNCHANGED disk
  /\ UNCHANGED sweep

\* for (let i = 1; i <= ITERATIONS; i++): a new IterationResults record.
LoopHead ==
  /\ pc = "loop" /\ i <= ITERATIONS
  /\ iterationResult' = [iteration |-> i, init |-> Null, loadBase |-> Null,
                         loadDiff |-> Null, loadDiffCached |-> Null,
                         loadBaseCached |-> Null]
  /\ step' = "Init"
  /\ pc' = "clear"
  /\ UNCHANGED <<i, allResults, baseCacheTimes, diffCacheTimes, thrown,
                 flushes, flushFailures, sessions>>
  /\ UNCHANGED exec /\ UNCHANGED post
  /\ UNCHANGED live /\ UNCHANGED disk
  /\ UNCHANGED sweep

\* The loop condition fails: on to the statistics.
LoopExit ==
  /\ pc = "loop" /\ i > ITERATIONS
  /\ pc' = "stats"
  /\ UNCHANGED <<step, thrown, flushes, flushFailures, sessions>>
  /\ UNCHANGED orch /\ UNCHANGED exec /\ UNCHANGED post
  /\ UNCHANGED live /\ UNCHANGED disk
  /\ UNCHANGED sweep

\* Mutant: step 1 without its await flushFsCache(): the Init session is
\* launched right after the profile directory was cleared.
ClearDiskCache_NoFlush ==
  /\ pc = "clear"
  /\ \E at \in {"done", "rmSync", "mkdirSync"} :
       CASE at = "done" ->
              /\ userDataDir' = Dir({})
              /\ cacheDir' = IF cacheDirOverride THEN cacheDir ELSE Dir({})
              /\ wipes' = wipes + 1
              /\ pc' = "exec" /\ thrown' = thrown
              /\ epc' = "launch"
              /\ action' = ActionOf(step)
              /\ context' = "none" /\ page' = "none"
              /\ consoleMessages' = <<>>
              /\ ret' = Null
         [] at = "rmSync" ->
              /\ UNCHANGED <<userDataDir, cacheDir, wipes>>
              /\ Throw("fs error")
              /\ UNCHANGED exec
         [] at = "mkdirSync" ->
              /\ userDataDir' = NoDir
              /\ cacheDir' = IF cacheDirOverride THEN cacheDir ELSE NoDir
              /\ wipes' = wipes + 1
              /\ Throw("fs error")
              /\ UNCHANGED exec
  /\ UNCHANGED cacheDirOverride
  /\ UNCHANGED <<step, flushes, flushFailures, sessions>>
  /\ UNCHANGED orch /\ UNCHANGED post /\ UNCHANGED live
  /\ UNCHANGED sweep

\* clearDiskCache(): remove and recreate the profile directory; a failing
\* fs call throws out of the test.
ClearDiskCache ==
  /\ pc = "clear"
  /\ \E at \in {"done", "rmSync", "mkdirSync"} :
       CASE at = "done" ->
              /\ userDataDir' = Dir({})
              /\ cacheDir' = IF cacheDirOverride THEN cacheDir ELSE Dir({})
              /\ wipes' = wipes + 1
              /\ pc' = "flush" /\ thrown' = thrown
         [] at = "rmSync" ->
              /\ UNCHANGED <<userDataDir, cacheDir, wipes>>
              /\ Throw("fs error")
         [] at = "mkdirSync" ->
              /\ userDataDir' = NoDir
              /\ cacheDir' = IF cacheDirOverride THEN cacheDir ELSE NoDir
              /\ wipes' = wipes + 1
              /\ Throw("fs error")
  /\ UNCHANGED cacheDirOverride
  /\ UNCHANGED <<step, flushes, flushFailures, sessions>>
  /\ UNCHANGED orch /\ UNCHANGED exec /\ UNCHANGED post /\ UNCHANGED live
  /\ UNCHANGED sweep

\* Mutant: flushFsCache logs the failure and returns instead of rethrowing.
FlushFsCache_Swallow ==
  /\ pc = "flush"
  /\ flushes' = flushes + 1
  /\ \E ok \in BOOLEAN :
       /\ flushFailures' = IF ok THEN flushFailures ELSE flushFailures + 1
       /\ pc' = "exec" /\ thrown' = thrown
       /\ epc' = "launch"
       /\ action' = ActionOf(step)
       /\ context' = "none" /\ page' = "none"
       /\ consoleMessages' = <<>>
       /\ ret' = Null
  /\ UNCHANGED <<step, sessions>>
  /\ UNCHANGED orch /\ UNCHANGED post
  /\ UNCHANGED live /\ UNCHANGED disk
  /\ UNCHANGED sweep

\* Mutant: flushFsCache tries the flush again after a failure.
FlushFsCache_Retry ==
  /\ pc = "flush"
  /\ flushes' = flushes + 1
  /\ \E ok \in BOOLEAN :
       IF ok
       THEN /\ pc' = "exec" /\ thrown' = thrown
            /\ epc' = "launch"
            /\ action' = ActionOf(step)
            /\ context' = "none" /\ page' = "none"
            /\ consoleMessages' = <<>>
            /\ ret' = Null
            /\ flushFailures' = flushFailures
       ELSE /\ pc' = "flush" /\ thrown' = thrown
            /\ flushFailures' = flushFailures + 1
            /\ UNCHANGED exec
  /\ UNCHANGED <<step, sessions>>
  /\ UNCHANGED orch /\ UNCHANGED post
  /\ UNCHANGED live /\ UNCHANGED disk
  /\ UNCHANGED sweep

\* await flushFsCache(): drop_caches, then the 500 ms settle; when execSync
\* throws the error is rethrown as FATAL.  On success the test goes on to
\* executeAction(baseURL, action), whose context and page start undefined.
FlushFsCache ==
  /\ pc = "flush"
  /\ flushes' = flushes + 1
  /\ \E ok \in BOOLEAN :
       IF ok
       THEN /\ pc' = "exec" /\ thrown' = thrown
            /\ epc' = "launch"
            /\ action' = ActionOf(step)
            /\ context' = "none" /\ page' = "none"
            /\ consoleMessages' = <<>>
            /\ ret' = Null
            /\ flushFailures' = flushFailures
       ELSE /\ Throw("FATAL: Failed to flush filesystem cache")
            /\ flushFailures' = flushFailures + 1
            /\ UNCHANGED exec
  /\ UNCHANGED <<step, sessions>>
  /\ UNCHANGED orch /\ UNCHANGED post
  /\ UNCHANGED live /\ UNCHANGED disk
  /\ UNCHANGED sweep


\* ----------------------------------------------------------- executeAction
\* How many lines the page logs at most while the navigation is in flight.
MaxEarlyLines == 1

\* Lines the page may log while the navigation is in flight: other output,
\* or a result line that does not parse.
EarlyLines ==
  UNION { [1..n -> {NoiseLine, MalformedLine}] : n \in 0..MaxEarlyLines }

\* Lines the page script may log once its fetch has settled: its result line,
\* or nothing.
ResultLines(a) == { <<>> } \cup { <<SentinelLine(r)>> : r \in PageResults(a) }

\* Mutant: the cleanup after the body instead of in a finally block, so a
\* rejected await leaves executeAction without closing anything.
Reject_SkipFinally(msg) == thrown' = msg /\ epc' = "return"

\* An await in the try block rejects: control goes to the finally block.
Reject(msg) == thrown' = msg /\ epc' = "closePage"

\* context = await chromium.launchPersistentContext(USER_DATA_DIR, ...)
LaunchPersistentContext ==
  /\ pc = "exec" /\ epc = "launch"
  /\ sessions' = sessions + 1
  /\ \E ok \in BOOLEAN :
       IF ok
       THEN /\ context' = "open" /\ epc' = "newPage" /\ thrown' = thrown
            /\ openContexts' = openContexts + 1
            /\ userDataDir' = Dir(userDataDir.entries \cup {sessions'})
       ELSE /\ Reject("launch failed") /\ context' = context
            /\ UNCHANGED <<openContexts, userDataDir>>
  /\ UNCHANGED <<openPages, cacheDirOverride, cacheDir, wipes>>
  /\ UNCHANGED <<pc, step, action, page, consoleMessages, ret, flushes,
                 flushFailures>>
  /\ UNCHANGED orch /\ UNCHANGED post
  /\ UNCHANGED sweep

\* page = await context.newPage(); consoleMessages = []; page.on('console')
NewPage ==
  /\ pc = "exec" /\ epc = "newPage"
  /\ \E ok \in BOOLEAN :
       IF ok
       THEN /\ page' = "open" /\ epc' = "goto" /\ thrown' = thrown
            /\ openPages' = openPages + 1
       ELSE Reject("newPage failed") /\ page' = page /\ openPages' = openPages
  /\ UNCHANGED openContexts
  /\ consoleMessages' = <<>>
  /\ UNCHANGED <<pc, step, action, context, ret, flushes, flushFailures,
                 sessions>>
  /\ UNCHANGED orch /\ UNCHANGED post /\ UNCHANGED disk
  /\ UNCHANGED sweep

\* await page.goto(url, { waitUntil: 'networkidle' }): the console listener
\* collects what the page logs; a navigation error or timeout rejects.
Goto ==
  /\ pc = "exec" /\ epc = "goto"
  /\ \E ok \in BOOLEAN, lines \in EarlyLines :
       /\ consoleMessages' = consoleMessages \o lines
       /\ IF ok
          THEN /\ epc' = "wait" /\ thrown' = thrown
               /\ cacheDir' = Dir(cacheDir.entries \cup {sessions})
          ELSE Reject("navigation failed") /\ cacheDir' = cacheDir
  /\ UNCHANGED <<cacheDirOverride, userDataDir, wipes>>
  /\ UNCHANGED <<pc, step, action, context, page, ret, flushes,
                 flushFailures, sessions>>
  /\ UNCHANGED orch /\ UNCHANGED post /\ UNCHANGED live
  /\ UNCHANGED sweep

\* await page.waitForTimeout(2000); result = parseTestResult(consoleMessages);
\* return { result, consoleMessages } (the finally block runs before the
\* caller resumes).
WaitForTimeout ==
  /\ pc = "exec" /\ epc = "wait"
  /\ \E ok \in BOOLEAN, lines \in ResultLines(action) :
       /\ consoleMessages' = consoleMessages \o lines
       /\ IF ok
          THEN /\ ret' = parseTestResult(consoleMessages')
               /\ epc' = "closePage" /\ thrown' = thrown
          ELSE Reject("page closed during wait") /\ ret' = ret
  /\ UNCHANGED <<pc, step, action, context, page, flushes, flushFailures,
                 sessions>>
  /\ UNCHANGED orch /\ UNCHANGED post
  /\ UNCHANGED live /\ UNCHANGED disk
  /\ UNCHANGED sweep

\* Mutant: page.close() without .catch(() => {}), so its rejection leaves
\* the finally block at once and becomes the error of the call.
ClosePage_NoCatch ==
  /\ pc = "exec" /\ epc = "closePage"
  /\ IF page = "open"
     THEN /\ openPages' = openPages - 1
          /\ \E ok \in BOOLEAN :
               IF ok
               THEN page' = "closed" /\ epc' = "closeContext"
                    /\ thrown' = thrown
               ELSE page' = "closeFailed" /\ epc' = "return"
                    /\ thrown' = "page close failed"
     ELSE /\ page' = page /\ openPages' = openPages
          /\ epc' = "closeContext" /\ thrown' = thrown
  /\ UNCHANGED openContexts
  /\ UNCHANGED <<pc, step, action, context, consoleMessages, ret,
                 flushes, flushFailures, sessions>>
  /\ UNCHANGED orch /\ UNCHANGED post /\ UNCHANGED disk
  /\ UNCHANGED sweep

\* finally: if (page) await page.close().catch(() => {})
ClosePage ==
  /\ pc = "exec" /\ epc = "closePage"
  /\ IF page = "open"
     THEN /\ \E ok \in BOOLEAN : page' = IF ok THEN "closed" ELSE "closeFailed"
          /\ openPages' = openPages - 1
     ELSE page' = page /\ openPages' = openPages
  /\ UNCHANGED openContexts
  /\ epc' = "closeContext"
  /\ UNCHANGED <<pc, step, action, context, consoleMessages, thrown, ret,
                 flushes, flushFailures, sessions>>
  /\ UNCHANGED orch /\ UNCHANGED post /\ UNCHANGED disk
  /\ UNCHANGED sweep

\* Mutant: a finally block that closes the page only and leaves the context
\* to the next launch.
CloseContext_Never ==
  /\ pc = "exec" /\ epc = "closeContext"
  /\ epc' = "return"
  /\ UNCHANGED <<pc, step, action, context, page, consoleMessages, thrown,
                 ret, flushes, flushFailures, sessions>>
  /\ UNCHANGED orch /\ UNCHANGED post /\ UNCHANGED live /\ UNCHANGED disk
  /\ UNCHANGED sweep

\* finally: if (context) await context.close().catch(() => {})
CloseContext ==
  /\ pc = "exec" /\ epc = "closeContext"
  /\ IF context = "open"
     THEN /\ \E ok \in BOOLEAN :
               context' = IF ok THEN "closed" ELSE "closeFailed"
          /\ openContexts' = openContexts - 1
     ELSE context' = context /\ openContexts' = openContexts
  /\ UNCHANGED openPages
  /\ epc' = "return"
  /\ UNCHANGED <<pc, step, action, page, consoleMessages, thrown, ret,
                 flushes, flushFailures, sessions>>
  /\ UNCHANGED orch /\ UNCHANGED post /\ UNCHANGED disk
  /\ UNCHANGED sweep

\* The finally block is done: executeAction returns its value to the test
\* body, or the pending error propagates out of the test.
ExecuteActionReturn ==
  /\ pc = "exec" /\ epc = "return"
  /\ epc' = "idle"
  /\ context' = "none" /\ page' = "none" /\ consoleMessages' = <<>>
  /\ pc' = IF thrown = "none" THEN "gate" ELSE "aborted"
  /\ UNCHANGED <<step, action, thrown, ret, flushes, flushFailures, sessions>>
  /\ UNCHANGED orch /\ UNCHANGED post
  /\ UNCHANGED live /\ UNCHANGED disk
  /\ UNCHANGED sweep


\* ------------------------------------------------------- the step gates
\* Mutant: every step starts with clearDiskCache(), as step 1 does.
NextStep_ClearFirst(s) == step' = s /\ pc' = "clear" /\ thrown' = thrown

\* To the next session step: its flush comes first.
NextStep(s) == step' = s /\ pc' = "flush" /\ thrown' = thrown

\* Step 1: iterationResult.init = initResult.result; the status gate.
GateInit ==
  /\ pc = "gate" /\ step = "Init"
  /\ iterationResult' = [iterationResult EXCEPT !.init = ret]
  /\ IF StatusOk(ret) THEN NextStep("LoadBase")
     ELSE Throw("FATAL: Init failed") /\ step' = step
  /\ UNCHANGED <<i, allResults, baseCacheTimes, diffCacheTimes, flushes,
                 flushFailures, sessions>>
  /\ UNCHANGED exec /\ UNCHANGED post
  /\ UNCHANGED live /\ UNCHANGED disk
  /\ UNCHANGED sweep

\* Step 2: iterationResult.loadBase = loadBaseResult.result; the status gate.
GateLoadBase ==
  /\ pc = "gate" /\ step = "LoadBase"
  /\ iterationResult' = [iterationResult EXCEPT !.loadBase = ret]
  /\ IF StatusOk(ret) THEN NextStep("LoadDiff")
     ELSE Throw("FATAL: Load base failed") /\ step' = step
  /\ UNCHANGED <<i, allResults, baseCacheTimes, diffCacheTimes, flushes,
                 flushFailures, sessions>>
  /\ UNCHANGED exec /\ UNCHANGED post
  /\ UNCHANGED live /\ UNCHANGED disk
  /\ UNCHANGED sweep

\* Mutant: step 3 without the CDT validation after its status gate.
GateLoadDiff_SkipValidate ==
  /\ pc = "gate" /\ step = "LoadDiff"
  /\ iterationResult' = [iterationResult EXCEPT !.loadDiff = ret]
  /\ IF StatusOk(ret)
     THEN step' = "LoadDiffCached" /\ pc' = "flush" /\ thrown' = thrown
     ELSE Throw("FATAL: Load diff failed") /\ step' = step
  /\ UNCHANGED <<i, allResults, baseCacheTimes, diffCacheTimes, flushes,
                 flushFailures, sessions>>
  /\ UNCHANGED exec /\ UNCHANGED post
  /\ UNCHANGED live /\ UNCHANGED disk
  /\ UNCHANGED sweep

\* Step 3: iterationResult.loadDiff = loadDiffResult.result; the status gate;
\* then the CDT validation, with no await in between.
GateLoadDiff ==
  /\ pc = "gate" /\ step = "LoadDiff"
  /\ iterationResult' = [iterationResult EXCEPT !.loadDiff = ret]
  /\ IF StatusOk(ret)
     THEN step' = "ValidateCDT" /\ pc' = "validate" /\ thrown' = thrown
     ELSE Throw("FATAL: Load diff failed") /\ step' = step
  /\ UNCHANGED <<i, allResults, baseCacheTimes, diffCacheTimes, flushes,
                 flushFailures, sessions>>
  /\ UNCHANGED exec /\ UNCHANGED post
  /\ UNCHANGED live /\ UNCHANGED disk
  /\ UNCHANGED sweep

\* Mutant: an insufficient size ratio sends the iteration back to LoadBase
\* instead of aborting the run.
ValidateCDT_Retry ==
  /\ pc = "validate" /\ step = "ValidateCDT"
  /\ IF ~EncodingOk(iterationResult.loadDiff)
     THEN Throw("FATAL: CDT not working") /\ step' = step
     ELSE IF ~RatioOk(iterationResult.loadBase, iterationResult.loadDiff)
     THEN NextStep("LoadBase")
     ELSE NextStep("LoadDiffCached")
  /\ UNCHANGED <<flushes, flushFailures, sessions>>
  /\ UNCHANGED orch /\ UNCHANGED exec /\ UNCHANGED post
  /\ UNCHANGED live /\ UNCHANGED disk
  /\ UNCHANGED sweep

\* Mutant: the two checks of the validation in the other order, the size
\* ratio first.
ValidateCDT_RatioFirst ==
  /\ pc = "validate" /\ step = "ValidateCDT"
  /\ IF ~RatioOk(iterationResult.loadBase, iterationResult.loadDiff)
     THEN Throw("FATAL: CDT compression insufficient") /\ step' = step
     ELSE IF ~EncodingOk(iterationResult.loadDiff)
     THEN Throw("FATAL: CDT not working") /\ step' = step
     ELSE NextStep("LoadDiffCached")
  /\ UNCHANGED <<flushes, flushFailures, sessions>>
  /\ UNCHANGED orch /\ UNCHANGED exec /\ UNCHANGED post
  /\ UNCHANGED live /\ UNCHANGED disk
  /\ UNCHANGED sweep

\* Validate CDT worked: the encoding check, then the size-ratio check.
ValidateCDT ==
  /\ pc = "validate" /\ step = "ValidateCDT"
  /\ IF ~EncodingOk(iterationResult.loadDiff)
     THEN Throw("FATAL: CDT not working") /\ step' = step
     ELSE IF ~RatioOk(iterationResult.loadBase, iterationResult.loadDiff)
     THEN Throw("FATAL: CDT compression insufficient") /\ step' = step
     ELSE NextStep("LoadDiffCached")
  /\ UNCHANGED <<flushes, flushFailures, sessions>>
  /\ UNCHANGED orch /\ UNCHANGED exec /\ UNCHANGED post
  /\ UNCHANGED live /\ UNCHANGED disk
  /\ UNCHANGED sweep

\* Mutant: step 4 pushes the duration before its delivery-type gate.
GateLoadDiffCached_PushFirst ==
  /\ pc = "gate" /\ step = "LoadDiffCached"
  /\ iterationResult' = [iterationResult EXCEPT !.loadDiffCached = ret]
  /\ IF ~StatusOk(ret)
     THEN /\ Throw("FATAL: Load diff cached failed") /\ step' = step
          /\ diffCacheTimes' = diffCacheTimes
     ELSE /\ diffCacheTimes' = IF HasDuration(ret)
                               THEN Append(diffCacheTimes, ret.duration.v)
                               ELSE diffCacheTimes
          /\ IF ~ServedFromCache(ret)
             THEN Throw("FATAL: Diff was not served from cache")
                  /\ step' = step
             ELSE NextStep("LoadBaseCached")
  /\ UNCHANGED <<i, allResults, baseCacheTimes, flushes, flushFailures,
                 sessions>>
  /\ UNCHANGED exec /\ UNCHANGED post
  /\ UNCHANGED live /\ UNCHANGED disk
  /\ UNCHANGED sweep

\* Step 4: iterationResult.loadDiffCached = ...; the status gate, the
\* delivery-type gate, then the push of the duration when there is one.
GateLoadDiffCached ==
  /\ pc = "gate" /\ step = "LoadDiffCached"
  /\ iterationResult' = [iterationResult EXCEPT !.loadDiffCached = ret]
  /\ IF ~StatusOk(ret)
     THEN /\ Throw("FATAL: Load diff cached failed") /\ step' = step
          /\ diffCacheTimes' = diffCacheTimes
     ELSE IF ~ServedFromCache(ret)
     THEN /\ Throw("FATAL: Diff was not served from cache") /\ step' = step
          /\ diffCacheTimes' = diffCacheTimes
     ELSE /\ diffCacheTimes' = IF HasDuration(ret)
                               THEN Append(diffCacheTimes, ret.duration.v)
                               ELSE diffCacheTimes
          /\ NextStep("LoadBaseCached")
  /\ UNCHANGED <<i, allResults, baseCacheTimes, flushes, flushFailures,
                 sessions>>
  /\ UNCHANGED exec /\ UNCHANGED post
  /\ UNCHANGED live /\ UNCHANGED disk
  /\ UNCHANGED sweep

\* Mutant: step 5 without allResults.push(iterationResult).
GateLoadBaseCached_NoPush ==
  /\ pc = "gate" /\ step = "LoadBaseCached"
  /\ iterationResult' = [iterationResult EXCEPT !.loadBaseCached = ret]
  /\ IF ~StatusOk(ret)
     THEN /\ Throw("FATAL: Load base cached failed") /\ step' = step
          /\ UNCHANGED <<baseCacheTimes, i>>
     ELSE IF ~ServedFromCache(ret)
     THEN /\ Throw("FATAL: Base was not served from cache") /\ step' = step
          /\ UNCHANGED <<baseCacheTimes, i>>
     ELSE /\ baseCacheTimes' = IF HasDuration(ret)
                               THEN Append(baseCacheTimes, ret.duration.v)
                               ELSE baseCacheTimes
          /\ i' = i + 1
          /\ step' = "none" /\ pc' = "loop" /\ thrown' = thrown
  /\ UNCHANGED <<allResults, diffCacheTimes, flushes, flushFailures,
                 sessions>>
  /\ UNCHANGED exec /\ UNCHANGED post
  /\ UNCHANGED live /\ UNCHANGED disk
  /\ UNCHANGED sweep

\* Mutant: the record is appended as soon as the fifth slot is filled, before
\* the gates of the step.
GateLoadBaseCached_AppendFirst ==
  /\ pc = "gate" /\ step = "LoadBaseCached"
  /\ iterationResult' = [iterationResult EXCEPT !.loadBaseCached = ret]
  /\ allResults' = Append(allResults, iterationResult')
  /\ IF ~StatusOk(ret)
     THEN /\ Throw("FATAL: Load base cached failed") /\ step' = step
          /\ UNCHANGED <<baseCacheTimes, i>>
     ELSE IF ~ServedFromCache(ret)
     THEN /\ Throw("FATAL: Base was not served from cache") /\ step' = step
          /\ UNCHANGED <<baseCacheTimes, i>>
     ELSE /\ baseCacheTimes' = IF HasDuration(ret)
                               THEN Append(baseCacheTimes, ret.duration.v)
                               ELSE baseCacheTimes
          /\ i' = i + 1
          /\ step' = "none" /\ pc' = "loop" /\ thrown' = thrown
  /\ UNCHANGED <<diffCacheTimes, flushes, flushFailures, sessions>>
  /\ UNCHANGED exec /\ UNCHANGED post
  /\ UNCHANGED live /\ UNCHANGED disk
  /\ UNCHANGED sweep

\* Step 5: iterationResult.loadBaseCached = ...; the status gate, the
\* delivery-type gate, the push of the duration when there is one, then
\* allResults.push(iterationResult) and i++.
GateLoadBaseCached ==
  /\ pc = "gate" /\ step = "LoadBaseCached"
  /\ iterationResult' = [iterationResult EXCEPT !.loadBaseCached = ret]
  /\ IF ~StatusOk(ret)
     THEN /\ Throw("FATAL: Load base cached failed") /\ step' = step
          /\ UNCHANGED <<baseCacheTimes, allResults, i>>
     ELSE IF ~ServedFromCache(ret)
     THEN /\ Throw("FATAL: Base was not served from cache") /\ step' = step
          /\ UNCHANGED <<baseCacheTimes, allResults, i>>
     ELSE /\ baseCacheTimes' = IF HasDuration(ret)
                               THEN Append(baseCacheTimes, ret.duration.v)
                               ELSE baseCacheTimes
          /\ allResults' = Append(allResults, iterationResult')
          /\ i' = i + 1
          /\ step' = "none" /\ pc' = "loop" /\ thrown' = thrown
  /\ UNCHANGED <<diffCacheTimes, flushes, flushFailures, sessions>>
  /\ UNCHANGED exec /\ UNCHANGED post
  /\ UNCHANGED live /\ UNCHANGED disk
  /\ UNCHANGED sweep

\* ------------------------------------------------------------ statistics
\* A rational number num/den, den > 0.
Rat(n, d) == [num |-> n, den |-> d]
RatAdd(a, b) == Rat(a.num * b.den + b.num * a.den, a.den * b.den)
RatSub(a, b) == Rat(a.num * b.den - b.num * a.den, a.den * b.den)
RatMul(a, b) == Rat(a.num * b.num, a.den * b.den)

\* A JavaScript number is a binary floating-point number, and every
\* arithmetic operation rounds its exact result to the nearest one, ties to
\* the even significand.  The model keeps that rule with a significand of
\* Precision bits (53 in the language) and an unbounded exponent: no
\* overflow to Infinity, no NaN.
Precision == 4

\* By how many powers of 2 a/b must be scaled up, or down, for its integer
\* part to have exactly Precision bits.
RECURSIVE ScaleUp(_, _)
ScaleUp(a, b) ==
  IF a >= 2^(Precision - 1) * b THEN 0 ELSE 1 + ScaleUp(2 * a, b)
RECURSIVE ScaleDown(_, _)
ScaleDown(a, b) == IF a < 2^Precision * b THEN 0 ELSE 1 + ScaleDown(a, 2 * b)

\* a/b rounded to the nearest integer, a tie to the even one (a >= 0, b > 0).
RoundHalfEven(a, b) ==
  LET q == a \div b
      r == a - q * b
  IN  IF 2 * r > b \/ (2 * r = b /\ q % 2 = 1) THEN q + 1 ELSE q

\* m/d in lowest terms, for d a power of 2.
RECURSIVE Lowest(_, _)
Lowest(m, d) ==
  IF d > 1 /\ m % 2 = 0 THEN Lowest(m \div 2, d \div 2) ELSE Rat(m, d)

\* The number nearest to the rational q.
Fl(q) ==
  IF q.num = 0 THEN Rat(0, 1)
  ELSE LET a == IF q.num < 0 THEN -q.num ELSE q.num
           up == ScaleUp(a, q.den)
           down == ScaleDown(a, q.den)
           m == RoundHalfEven(a * 2^up, q.den * 2^down)
       IN  Lowest((IF q.num < 0 THEN -m ELSE m) * 2^down, 2^up)

\* x + y, x - y, x * y and x / n on numbers (n a positive integer).
FAdd(x, y) == Fl(RatAdd(x, y))
FSub(x, y) == Fl(RatSub(x, y))
FMul(x, y) == Fl(RatMul(x, y))
FDiv(x, n) == Fl(Rat(x.num, x.den * n))

\* xs.reduce((a, b) => a + b, acc) on a sequence of numbers.
RECURSIVE Reduce(_, _)
Reduce(acc, xs) ==
  IF xs = <<>> THEN acc ELSE Reduce(FAdd(acc, Head(xs)), Tail(xs))

\* Mutant: the sign test as a test for nonzero (mean !== 0).
RatPos_NonZero(a) == a.num # 0

\* a > 0 on rationals
RatPos(a) == a.num > 0

RECURSIVE SumSeq(_)
SumSeq(xs) == IF xs = <<>> THEN 0 ELSE Head(xs) + SumSeq(Tail(xs))

\* Mutant: the copy is not sorted.
sorted_NoSort(samples) == samples

\* const sorted = [...samples].sort((a, b) => a - b)
sorted(samples) == SortSeq(samples, LAMBDA a, b : a < b)

\* Mutant: for an even count the upper of the two middle values.
median_UpperMiddle(sortedSamples) ==
  Rat(sortedSamples[Len(sortedSamples) \div 2 + 1], 1)

\* const median = sorted.length % 2 === 0
\*   ? (sorted[length / 2 - 1] + sorted[length / 2]) / 2
\*   : sorted[Math.floor(length / 2)]            (indices from 0 there)
median(sortedSamples) ==
  LET n == Len(sortedSamples)
  IN  IF n % 2 = 0
      THEN FDiv(FAdd(Rat(sortedSamples[n \div 2], 1),
                     Rat(sortedSamples[n \div 2 + 1], 1)), 2)
      ELSE Rat(sortedSamples[n \div 2 + 1], 1)

\* Mutant: the sample variance, divided by N - 1 (by 1 for one sample).
avgSquaredDiff_SampleVariance(samples, mean) ==
  LET n == Len(samples)
      squaredDiffs ==
        [k \in 1..n |-> LET d == FSub(Rat(samples[k], 1), mean) IN FMul(d, d)]
  IN  FDiv(Reduce(Rat(0, 1), squaredDiffs), IF n > 1 THEN n - 1 ELSE 1)

\* const squaredDiffs = samples.map(x => Math.pow(x - mean, 2));
\* const avgSquaredDiff = squaredDiffs.reduce(...) / samples.length
avgSquaredDiff(samples, mean) ==
  LET n == Len(samples)
      squaredDiffs ==
        [k \in 1..n |-> LET d == FSub(Rat(samples[k], 1), mean) IN FMul(d, d)]
  IN  FDiv(Reduce(Rat(0, 1), squaredDiffs), n)

\* Mutant: no early return, so the empty array goes through the arithmetic:
\* 0 / 0 is NaN (written 0/0 here) and sorted[0] is undefined.
emptyStats_NoGuard(resourceType) ==
  [resourceType |-> resourceType, samples |-> <<>>, mean |-> Rat(0, 0),
   median |-> Undefined, min |-> Undefined, max |-> Undefined,
   stdDevSq |-> Rat(0, 0)]

\* if (samples.length === 0) return { resourceType, samples: [], mean: 0, ... }
emptyStats(resourceType) ==
  [resourceType |-> resourceType, samples |-> <<>>, mean |-> Rat(0, 1),
   median |-> Rat(0, 1), min |-> 0, max |-> 0, stdDevSq |-> Rat(0, 1)]

\* function calculateStats(samples, resourceType): all zero on an empty
\* sequence; else mean = sum / n, the median of the sorted copy, min, max and
\* stdDev = Math.sqrt(avgSquaredDiff), kept as its radicand stdDevSq.  The
\* samples are integer-valued numbers.
calculateStats(samples, resourceType) ==
  IF Len(samples) = 0
  THEN emptyStats(resourceType)
  ELSE LET n == Len(samples)
           sum == Reduce(Rat(0, 1), [k \in 1..n |-> Rat(samples[k], 1)])
           mean == FDiv(sum, n)
       IN  [resourceType |-> resourceType,
            samples |-> samples,
            mean |-> mean,
            median |-> median(sorted(samples)),
            min |-> sorted(samples)[1],
            max |-> sorted(samples)[n],
            stdDevSq |-> avgSquaredDiff(samples, mean)]

\* Mutant: the COMPARISON block guarded by || instead of &&.
formatReport_EitherMean(baseCacheStats, diffCacheStats, results) ==
  [totalIterations |-> Len(results),
   baseSamples |-> Len(baseCacheStats.samples),
   diffSamples |-> Len(diffCacheStats.samples),
   comparison |->
     IF RatPos(baseCacheStats.mean) \/ RatPos(diffCacheStats.mean)
     THEN LET diff == FSub(baseCacheStats.mean, diffCacheStats.mean)
          IN  [difference |-> diff,
               label |-> IF RatPos(diff) THEN "faster" ELSE "slower"]
     ELSE Null,
   details |-> [k \in 1..Len(results) |-> results[k].iteration]]

\* function formatReport(baseCacheStats, diffCacheStats, allResults): the
\* sections of the report; the COMPARISON block only when both means are > 0.
formatReport(baseCacheStats, diffCacheStats, results) ==
  [totalIterations |-> Len(results),
   baseSamples |-> Len(baseCacheStats.samples),
   diffSamples |-> Len(diffCacheStats.samples),
   comparison |->
     IF RatPos(baseCacheStats.mean) /\ RatPos(diffCacheStats.mean)
     THEN LET diff == FSub(baseCacheStats.mean, diffCacheStats.mean)
          IN  [difference |-> diff,
               label |-> IF RatPos(diff) THEN "faster" ELSE "slower"]
     ELSE Null,
   details |-> [k \in 1..Len(results) |-> results[k].iteration]]

\* const baseCacheStats = calculateStats(baseCacheTimes, 'base'); ... 'diff'
CalculateStats ==
  /\ pc = "stats"
  /\ stats' = [base |-> calculateStats(baseCacheTimes, "base"),
               diff |-> calculateStats(diffCacheTimes, "diff")]
  /\ pc' = "report"
  /\ UNCHANGED <<step, thrown, report, flushes, flushFailures, sessions>>
  /\ UNCHANGED orch /\ UNCHANGED exec
  /\ UNCHANGED live /\ UNCHANGED disk
  /\ UNCHANGED sweep

\* const report = formatReport(...); console.log(report)
FormatReport ==
  /\ pc = "report"
  /\ report' = formatReport(stats.base, stats.diff, allResults)
  /\ pc' = "expect"
  /\ UNCHANGED <<step, thrown, stats, flushes, flushFailures, sessions>>
  /\ UNCHANGED orch /\ UNCHANGED exec
  /\ UNCHANGED live /\ UNCHANGED disk
  /\ UNCHANGED sweep

\* expect(allResults.length).toBe(ITERATIONS), and the same of both sample
\* arrays: the test passes, or the first failing expectation throws.
Expect ==
  /\ pc = "expect"
  /\ IF /\ Len(allResults) = ITERATIONS
        /\ Len(baseCacheTimes) = ITERATIONS
        /\ Len(diffCacheTimes) = ITERATIONS
     THEN pc' = "passed" /\ thrown' = thrown
     ELSE pc' = "failed" /\ thrown' = "expect failed"
  /\ UNCHANGED <<step, flushes, flushFailures, sessions>>
  /\ UNCHANGED orch /\ UNCHANGED exec /\ UNCHANGED post
  /\ UNCHANGED live /\ UNCHANGED disk
  /\ UNCHANGED sweep

\* ------------------------------------------- the statistics on their own
\* calculateStats and formatReport applied to sample arrays of any content:
\* a duration is whatever number the page reports.
MaxSamples == 3
MaxDiffSamples == 1
SampleValues == {-4, 0, 7, 10, 20, 30}
SampleSeqs == UNION { [1..n -> SampleValues] : n \in 0..MaxSamples }
DiffSampleSeqs == UNION { [1..n -> SampleValues] : n \in 0..MaxDiffSamples }

InitStats ==
  /\ pc = "stats"
  /\ i = ITERATIONS + 1
  /\ step = "none"
  /\ iterationResult = Null
  /\ allResults = <<>>
  /\ baseCacheTimes \in SampleSeqs
  /\ diffCacheTimes \in DiffSampleSeqs
  /\ epc = "idle"
  /\ action = "none"
  /\ context = "none"
  /\ page = "none"
  /\ consoleMessages = <<>>
  /\ thrown = "none"
  /\ ret = Null
  /\ stats = NoStats
  /\ report = Null
  /\ flushes = 0
  /\ flushFailures = 0
  /\ sessions = 0
  /\ openContexts = 0
  /\ openPages = 0
  /\ cacheDirOverride = FALSE
  /\ userDataDir = Dir({})
  /\ cacheDir = Dir({})
  /\ wipes = 0
  /\ NoSweep

NextStats == CalculateStats \/ FormatReport

SpecStats == InitStats /\ [][NextStats]_vars

\* ------------------------------------------------ the parser on its own
\* parseTestResult applied to console output of any content: the Init
\* session of the first iteration has navigated, its page has logged up to
\* MaxLines lines, and the settle wait is next.
MaxLines == 3
LineAlphabet ==
  { NoiseLine, MalformedLine, SentinelLine(Null) }
    \cup { SentinelLine(r) : r \in InitResults }
LineSeqs == UNION { [1..n -> LineAlphabet] : n \in 0..MaxLines }

InitParse ==
  /\ pc = "exec"
  /\ i = 1
  /\ step = "Init"
  /\ iterationResult = [iteration |-> 1, init |-> Null, loadBase |-> Null,
                        loadDiff |-> Null, loadDiffCached |-> Null,
                        loadBaseCached |-> Null]
  /\ allResults = <<>>
  /\ baseCacheTimes = <<>>
  /\ diffCacheTimes = <<>>
  /\ epc = "wait"
  /\ action = "init"
  /\ context = "open"
  /\ page = "open"
  /\ consoleMessages \in LineSeqs
  /\ thrown = "none"
  /\ ret = Null
  /\ stats = NoStats
  /\ report = Null
  /\ flushes = 1
  /\ flushFailures = 0
  /\ sessions = 1
  /\ openContexts = 1
  /\ openPages = 1
  /\ cacheDirOverride = FALSE
  /\ userDataDir = Dir({1})
  /\ cacheDir = Dir({1})
  /\ wipes = 1
  /\ NoSweep

NextParse == WaitForTimeout

SpecParse == InitParse /\ [][NextParse]_vars

\* --------------------------------------------- the validation on its own
\* The CDT validation applied to any pair of transfer sizes: the first
\* iteration has run its Init, LoadBase and LoadDiff sessions, their status
\* gates have passed, and the validation is next.  transferSize is absent,
\* null or a number of bytes up to MaxSize.
MaxSize == 4
SizeValues == {Undefined, Null} \cup {Num(n) : n \in 0..MaxSize}
ValidateBases ==
  { TestResult("load_base", "ok", "br", ts, Num(9), "network") :
      ts \in SizeValues }
ValidateDiffs ==
  { TestResult("load_diff", "ok", enc, ts, Num(9), "network") :
      enc \in {"dcb", "br"}, ts \in SizeValues }

InitValidate ==
  /\ pc = "validate"
  /\ i = 1
  /\ step = "ValidateCDT"
  /\ \E base \in ValidateBases, diff \in ValidateDiffs :
       /\ iterationResult =
            [iteration |-> 1,
             init |-> TestResult("init", "ok", "undefined", Undefined,
                                 Undefined, "undefined"),
             loadBase |-> base, loadDiff |-> diff,
             loadDiffCached |-> Null, loadBaseCached |-> Null]
       /\ ret = diff
  /\ allResults = <<>>
  /\ baseCacheTimes = <<>>
  /\ diffCacheTimes = <<>>
  /\ epc = "idle"
  /\ action = "load_diff"
  /\ context = "none"
  /\ page = "none"
  /\ consoleMessages = <<>>
  /\ thrown = "none"
  /\ stats = NoStats
  /\ report = Null
  /\ flushes = 3
  /\ flushFailures = 0
  /\ sessions = 3
  /\ openContexts = 0
  /\ openPages = 0
  /\ cacheDirOverride = FALSE
  /\ userDataDir = Dir({1, 2, 3})
  /\ cacheDir = Dir({1, 2, 3})
  /\ wipes = 1
  /\ NoSweep

NextValidate == ValidateCDT

SpecValidate == InitValidate /\ [][NextValidate]_vars

\* ------------------------------------------------------ run-perf-sweep.sh
\* Bash arithmetic is two's-complement arithmetic on intmax_t, which wraps
\* around on overflow: 64 bits wide there, IntBits bits wide here.
IntBits == 4
MinInt == -(2^(IntBits - 1))
MaxInt == 2^(IntBits - 1) - 1
Wrap(x) == ((x - MinInt) % 2^IntBits) + MinInt

\* a / b in $(( )): the quotient truncated toward zero, b not 0.
Abs(x) == IF x < 0 THEN -x ELSE x
Quot(a, b) ==
  IF (a < 0) = (b < 0) THEN Abs(a) \div Abs(b) ELSE -(Abs(a) \div Abs(b))

\* $(( (END_DELAY - START_DELAY) / INCREMENT + 1 )), INCREMENT not 0
totalTests(start, end, increment) ==
  Wrap(Wrap(Quot(Wrap(end - start), increment)) + 1)

\* Strings the script stores: an empty string, "N/A", "~0", a throughput
\* such as "32.4 MB/s", "~1 GB/s", and the delay label "0 (control)".
Empty == [t |-> "empty"]
NA == [t |-> "N/A"]
AboutZero == [t |-> "~0"]
Speed == [t |-> "MB/s"]
AboutOneGB == [t |-> "~1 GB/s"]
ControlLabel == [t |-> "0 (control)"]

\* parse_throughput: the last speed in the setup output, or N/A.
Throughputs == {Speed, NA}

\* parse_test_output: the first "Diff (cache): ... duration=" and the first
\* "Base (cache): ... duration=" of the test's output, each empty when the
\* output has no such line.
TimingsOf(dcb, brotli) == [dcb_time |-> dcb, brotli_time |-> brotli]
Timings == {TimingsOf(Num(12), Num(9)), TimingsOf(Empty, Empty)}

\* ${x:-N/A}
orNA(x) == IF x = Empty THEN NA ELSE x

\* gap: "scale=2; $dcb_time - $brotli_time" | bc when both are non-empty,
\* else the default.
gapOf(t, default) ==
  IF t.dcb_time # Empty /\ t.brotli_time # Empty
  THEN Num(t.dcb_time.v - t.brotli_time.v)
  ELSE default

\* A row of the CSV file or of the report table.
Row(d, tp, dcb, brotli, gap) ==
  [delay |-> d, throughput |-> tp, dcb |-> dcb, brotli |-> brotli,
   gap |-> gap]

\* The arguments the sweep is started with, and the throttled tests the
\* model follows a sweep through.
MaxIncrement == 2
MaxTests == 3
StartDelays == MinInt .. MaxInt
EndDelays == 0 .. MaxInt
Increments == -1 .. MaxIncrement

\* The test body as it stands in the repository while the sweep runs: each
\* npm test is a process of its own, seen by the script through its exit
\* status and its output.
InitSweep ==
  /\ TestStart(TRUE)
  /\ spc = "prerequisites"
  /\ START_DELAY \in StartDelays
  /\ END_DELAY \in EndDelays
  /\ INCREMENT \in Increments
  /\ delay = Null /\ test_count = Null /\ total_tests = Null
  /\ throughput = Null /\ timings = Null
  /\ DELAYS = <<>> /\ THROUGHPUTS = <<>> /\ DCB_READ_TIMES = <<>>
  /\ BROTLI_READ_TIMES = <<>> /\ GAPS = <<>>
  /\ RESULTS_FILE = NoFile /\ REPORT_FILE = NoFile

\* main: the prerequisite checks (exit 1 when one fails), then the CSV
\* header.
Prerequisites ==
  /\ spc = "prerequisites"
  /\ \E ok \in BOOLEAN :
       IF ok THEN RESULTS_FILE' = File(<<>>) /\ spc' = "control"
       ELSE RESULTS_FILE' = RESULTS_FILE /\ spc' = "exit"
  /\ UNCHANGED <<delay, test_count, total_tests, throughput, timings,
                 REPORT_FILE>>
  /\ UNCHANGED args /\ UNCHANGED arrays
  /\ UNCHANGED <<pc, step, thrown, flushes, flushFailures, sessions>>
  /\ UNCHANGED orch /\ UNCHANGED exec /\ UNCHANGED post
  /\ UNCHANGED live /\ UNCHANGED disk

\* main: the control test. Its failure is only warned about; whatever its
\* output holds is parsed and the control row is stored.
ControlTest ==
  /\ spc = "control"
  /\ \E control \in Timings :
       /\ DELAYS' = Append(DELAYS, ControlLabel)
       /\ THROUGHPUTS' = Append(THROUGHPUTS, AboutOneGB)
       /\ DCB_READ_TIMES' = Append(DCB_READ_TIMES, orNA(control.dcb_time))
       /\ BROTLI_READ_TIMES' =
            Append(BROTLI_READ_TIMES, orNA(control.brotli_time))
       /\ GAPS' = Append(GAPS, gapOf(control, AboutZero))
       /\ RESULTS_FILE' =
            File(Append(RESULTS_FILE.rows,
                        Row(ControlLabel, AboutOneGB, orNA(control.dcb_time),
                            orNA(control.brotli_time),
                            gapOf(control, AboutZero))))
  /\ spc' = "total"
  /\ UNCHANGED <<delay, test_count, total_tests, throughput, timings,
                 REPORT_FILE>>
  /\ UNCHANGED args
  /\ UNCHANGED <<pc, step, thrown, flushes, flushFailures, sessions>>
  /\ UNCHANGED orch /\ UNCHANGED exec /\ UNCHANGED post
  /\ UNCHANGED live /\ UNCHANGED disk

\* main: local delay=$START_DELAY; local test_count=0; local total_tests=...
\* A division by 0 is an expansion error: bash prints it and abandons the
\* command being executed, which is main "$@", the last of the script.
TotalTests ==
  /\ spc = "total"
  /\ delay' = START_DELAY
  /\ test_count' = 0
  /\ IF INCREMENT = 0
     THEN total_tests' = total_tests /\ spc' = "abandoned"
     ELSE /\ total_tests' = totalTests(START_DELAY, END_DELAY, INCREMENT)
          /\ spc' = "while"
  /\ UNCHANGED <<throughput, timings, RESULTS_FILE, REPORT_FILE>>
  /\ UNCHANGED args /\ UNCHANGED arrays
  /\ UNCHANGED <<pc, step, thrown, flushes, flushFailures, sessions>>
  /\ UNCHANGED orch /\ UNCHANGED exec /\ UNCHANGED post
  /\ UNCHANGED live /\ UNCHANGED disk

\* Mutant: the loop condition with -lt, which leaves out a delay equal to the
\* end delay.
While_LessThan ==
  /\ spc = "while"
  /\ IF delay < END_DELAY
     THEN /\ test_count < MaxTests
          /\ test_count' = Wrap(test_count + 1)
          /\ spc' = "setup"
     ELSE test_count' = test_count /\ spc' = "report"
  /\ UNCHANGED <<delay, total_tests, throughput, timings, RESULTS_FILE,
                 REPORT_FILE>>
  /\ UNCHANGED args /\ UNCHANGED arrays
  /\ UNCHANGED <<pc, step, thrown, flushes, flushFailures, sessions>>
  /\ UNCHANGED orch /\ UNCHANGED exec /\ UNCHANGED post
  /\ UNCHANGED live /\ UNCHANGED disk

\* while [ "$delay" -le "$END_DELAY" ]; do test_count=$((test_count + 1));
\* then run_test_iteration is entered. (The model follows MaxTests tests.)
While ==
  /\ spc = "while"
  /\ IF delay <= END_DELAY
     THEN /\ test_count < MaxTests
          /\ test_count' = Wrap(test_count + 1)
          /\ spc' = "setup"
     ELSE test_count' = test_count /\ spc' = "report"
  /\ UNCHANGED <<delay, total_tests, throughput, timings, RESULTS_FILE,
                 REPORT_FILE>>
  /\ UNCHANGED args /\ UNCHANGED arrays
  /\ UNCHANGED <<pc, step, thrown, flushes, flushFailures, sessions>>
  /\ UNCHANGED orch /\ UNCHANGED exec /\ UNCHANGED post
  /\ UNCHANGED live /\ UNCHANGED disk

\* Mutant: a failed setup ends the sweep, as set -e would outside the
\* condition of an if.
SetupThrottledIO_ExitOnFailure ==
  /\ spc = "setup"
  /\ \E ok \in BOOLEAN :
       IF ok
       THEN \E t \in Throughputs : throughput' = t /\ spc' = "npmTest"
       ELSE throughput' = throughput /\ spc' = "exit"
  /\ UNCHANGED <<delay, test_count, total_tests, timings, RESULTS_FILE,
                 REPORT_FILE>>
  /\ UNCHANGED args /\ UNCHANGED arrays
  /\ UNCHANGED <<pc, step, thrown, flushes, flushFailures, sessions>>
  /\ UNCHANGED orch /\ UNCHANGED exec /\ UNCHANGED post
  /\ UNCHANGED live /\ UNCHANGED disk

\* run_test_iteration: setup_output=$(./setup-throttled-io.sh "$delay") ||
\* { ...; return 1; }, then throughput=$(parse_throughput "$setup_output").
\* The caller logs a failed iteration and goes on.
SetupThrottledIO ==
  /\ spc = "setup"
  /\ \E ok \in BOOLEAN :
       IF ok
       THEN \E t \in Throughputs : throughput' = t /\ spc' = "npmTest"
       ELSE throughput' = throughput /\ spc' = "advance"
  /\ UNCHANGED <<delay, test_count, total_tests, timings, RESULTS_FILE,
                 REPORT_FILE>>
  /\ UNCHANGED args /\ UNCHANGED arrays
  /\ UNCHANGED <<pc, step, thrown, flushes, flushFailures, sessions>>
  /\ UNCHANGED orch /\ UNCHANGED exec /\ UNCHANGED post
  /\ UNCHANGED live /\ UNCHANGED disk

\* run_test_iteration: test_output=$(CDT_CACHE_DIR=... npm test) ||
\* { ...; return 1; }, then timings=$(parse_test_output "$test_output").
NpmTest ==
  /\ spc = "npmTest"
  /\ \E ok \in BOOLEAN :
       IF ok
       THEN \E t \in Timings : timings' = t /\ spc' = "store"
       ELSE timings' = timings /\ spc' = "advance"
  /\ UNCHANGED <<delay, test_count, total_tests, throughput, RESULTS_FILE,
                 REPORT_FILE>>
  /\ UNCHANGED args /\ UNCHANGED arrays
  /\ UNCHANGED <<pc, step, thrown, flushes, flushFailures, sessions>>
  /\ UNCHANGED orch /\ UNCHANGED exec /\ UNCHANGED post
  /\ UNCHANGED live /\ UNCHANGED disk

\* run_test_iteration: the gap, the five array appends, the CSV row, sleep 2
\* and return 0.
StoreResults ==
  /\ spc = "store"
  /\ DELAYS' = Append(DELAYS, Num(delay))
  /\ THROUGHPUTS' = Append(THROUGHPUTS, throughput)
  /\ DCB_READ_TIMES' = Append(DCB_READ_TIMES, orNA(timings.dcb_time))
  /\ BROTLI_READ_TIMES' = Append(BROTLI_READ_TIMES, orNA(timings.brotli_time))
  /\ GAPS' = Append(GAPS, gapOf(timings, NA))
  /\ RESULTS_FILE' =
       File(Append(RESULTS_FILE.rows,
                   Row(Num(delay), throughput, orNA(timings.dcb_time),
                       orNA(timings.brotli_time), gapOf(timings, NA))))
  /\ spc' = "advance"
  /\ UNCHANGED <<delay, test_count, total_tests, throughput, timings,
                 REPORT_FILE>>
  /\ UNCHANGED args
  /\ UNCHANGED <<pc, step, thrown, flushes, flushFailures, sessions>>
  /\ UNCHANGED orch /\ UNCHANGED exec /\ UNCHANGED post
  /\ UNCHANGED live /\ UNCHANGED disk

\* delay=$((delay + INCREMENT)); run_test_iteration's locals are gone.
Advance ==
  /\ spc = "advance"
  /\ delay' = Wrap(delay + INCREMENT)
  /\ throughput' = Null /\ timings' = Null
  /\ spc' = "while"
  /\ UNCHANGED <<test_count, total_tests, RESULTS_FILE, REPORT_FILE>>
  /\ UNCHANGED args /\ UNCHANGED arrays
  /\ UNCHANGED <<pc, step, thrown, flushes, flushFailures, sessions>>
  /\ UNCHANGED orch /\ UNCHANGED exec /\ UNCHANGED post
  /\ UNCHANGED live /\ UNCHANGED disk

\* generate_report: one table row for each index of DELAYS, written to the
\* report file.
GenerateReport ==
  /\ spc = "report"
  /\ REPORT_FILE' =
       File([k \in 1 .. Len(DELAYS) |->
               Row(DELAYS[k], THROUGHPUTS[k], DCB_READ_TIMES[k],
                   BROTLI_READ_TIMES[k], GAPS[k])])
  /\ spc' = "done"
  /\ UNCHANGED <<delay, test_count, total_tests, throughput, timings,
                 RESULTS_FILE>>
  /\ UNCHANGED args /\ UNCHANGED arrays
  /\ UNCHANGED <<pc, step, thrown, flushes, flushFailures, sessions>>
  /\ UNCHANGED orch /\ UNCHANGED exec /\ UNCHANGED post
  /\ UNCHANGED live /\ UNCHANGED disk

NextSweep ==
  \/ Prerequisites \/ ControlTest \/ TotalTests \/ While
  \/ SetupThrottledIO \/ NpmTest \/ StoreResults \/ Advance
  \/ GenerateReport

SpecSweep == InitSweep /\ [][NextSweep]_vars

Next ==
  \/ LoopHead \/ LoopExit \/ ClearDiskCache \/ FlushFsCache
  \/ LaunchPersistentContext \/ NewPage \/ Goto \/ WaitForTimeout
  \/ ClosePage \/ CloseContext \/ ExecuteActionReturn
  \/ GateInit \/ GateLoadBase \/ GateLoadDiff \/ ValidateCDT
  \/ GateLoadDiffCached \/ GateLoadBaseCached
  \/ CalculateStats \/ FormatReport \/ Expect

Spec == Init /\ [][Next]_vars


\* ================================================================ claims
\* The vocabulary of the claims, stated without the operators of the code.
SessionSteps == {"Init", "LoadBase", "LoadDiff", "LoadDiffCached",
                 "LoadBaseCached"}
CachedSteps == {"LoadDiffCached", "LoadBaseCached"}
PostLoop == {"stats", "report", "expect", "passed", "failed"}

StepNo(s) == IF s = "none" THEN 0 ELSE CHOOSE k \in 1..6 : Steps[k] = s

\* How many sessions an iteration has run once step s has launched its own.
SessionNo(s) ==
  CASE s = "Init" -> 1 [] s = "LoadBase" -> 2 [] s = "LoadDiff" -> 3
    [] s = "ValidateCDT" -> 3 [] s = "LoadDiffCached" -> 4
    [] s = "LoadBaseCached" -> 5 [] OTHER -> 0

SlotOf(rec, s) ==
  CASE s = "Init" -> rec.init [] s = "LoadBase" -> rec.loadBase
    [] s = "LoadDiff" -> rec.loadDiff
    [] s = "LoadDiffCached" -> rec.loadDiffCached
    [] s = "LoadBaseCached" -> rec.loadBaseCached

\* No parsed outcome, or an outcome whose status is not ok.
NotOk(r) == r = Null \/ r.status # "ok"

\* A transfer size in bytes; an absent or null one counts as 0.
Bytes(r) == IF r.transferSize.t = "number" THEN r.transferSize.v ELSE 0

\* The CDT validation as the claims state it.
CdtValid(base, diff) ==
  diff.contentEncoding = "dcb" /\ Bytes(base) >= 2 * Bytes(diff)

\* Step s of the record has passed its gate.
GatePassed(rec, s) ==
  IF s = "ValidateCDT"
  THEN CdtValid(rec.loadBase, rec.loadDiff)
  ELSE /\ ~NotOk(SlotOf(rec, s))
       /\ s \in CachedSteps => SlotOf(rec, s).deliveryType = "cache"

AllGatesPassed(rec) == \A k \in 1..6 : GatePassed(rec, Steps[k])

\* Once the run has aborted nothing happens any more.
AbortIsFinal == pc = "aborted" => UNCHANGED vars

\* C1 (state part): while a step runs, every earlier step of the iteration
\* has passed its gate, no later step has left an outcome, the session in
\* flight carries the step's action, and it is the step's only session.
C1_EarlierStepsPassed ==
  step # "none" =>
    /\ \A k \in 1..6 :
         /\ k < StepNo(step) => GatePassed(iterationResult, Steps[k])
         /\ (k > StepNo(step) /\ Steps[k] \in SessionSteps)
              => SlotOf(iterationResult, Steps[k]) = Null
    /\ pc = "exec" =>
         /\ action = (CASE step = "Init" -> "init"
                        [] step = "LoadBase" -> "load_base"
                        [] step = "LoadDiff" -> "load_diff"
                        [] step = "LoadDiffCached" -> "load_diff"
                        [] step = "LoadBaseCached" -> "load_base")
         /\ epc # "launch" => sessions = 5 * (i - 1) + SessionNo(step)

\* C1 (step part): the step changes only from one step to the next one of
\* the list, from no step to Init, or from LoadBaseCached to the end of the
\* iteration.
C1_NextStepOnly ==
  step' # step =>
    \/ step = "none" /\ step' = "Init" /\ i' = i
    \/ /\ StepNo(step) \in 1..5 /\ step' = Steps[StepNo(step) + 1] /\ i' = i
       /\ GatePassed(iterationResult', step)
    \/ step = "LoadBaseCached" /\ step' = "none" /\ i' = i + 1

\* C1: in every iteration the steps run in the order Init, LoadBase,
\* LoadDiff, ValidateCDT, LoadDiffCached, LoadBaseCached, none skipped, none
\* twice, each only after the earlier ones passed their gates.
C1_StepsInOrder == [][C1_NextStepOnly /\ C1_EarlierStepsPassed']_vars

\* C1 witness: the last session of the second iteration is navigating.
C1_Witness ==
  i = ITERATIONS /\ step = "LoadBaseCached" /\ pc = "exec" /\ epc = "goto"

\* C2: a run that completes its N iterations without a gate failure has
\* exactly N base samples and N diff samples, whatever the outcomes' fields.
C2_SampleLengthsAreN ==
  pc \in PostLoop =>
    Len(baseCacheTimes) = ITERATIONS /\ Len(diffCacheTimes) = ITERATIONS

\* C3: at the end of every run, completed or aborted, the two sample
\* sequences have equal length.
C3_EqualLengthAtRunEnd ==
  pc \in {"passed", "failed", "aborted"} =>
    Len(baseCacheTimes) = Len(diffCacheTimes)

\* C4: at each of the five session steps an absent outcome or a status other
\* than ok aborts the run there: no flush, no session, no step and no
\* iteration follows.
C4_StatusGateAborts ==
  [][/\ (pc = "gate" /\ NotOk(ret)) =>
          /\ pc' = "aborted" /\ step' = step /\ i' = i
          /\ sessions' = sessions /\ flushes' = flushes
          /\ allResults' = allResults
     /\ (pc = "gate" /\ pc' = "aborted") => step \in SessionSteps
     /\ AbortIsFinal]_vars

\* C4 witness: the second iteration aborted at LoadDiffCached on a session
\* that produced no outcome.
C4_Witness ==
  /\ pc = "aborted" /\ i = 2 /\ step = "LoadDiffCached"
  /\ iterationResult.loadDiffCached = Null

\* C5: the CDT validation passes exactly when the diff encoding is 'dcb' and
\* the base transfer size is at least twice the diff transfer size; when it
\* fails the run aborts and LoadDiffCached never starts.
C5_ValidateCDT ==
  [][/\ pc = "validate" =>
          IF CdtValid(iterationResult.loadBase, iterationResult.loadDiff)
          THEN step' = "LoadDiffCached" /\ pc' = "flush"
          ELSE /\ pc' = "aborted" /\ step' = "ValidateCDT"
               /\ sessions' = sessions /\ flushes' = flushes
     /\ AbortIsFinal]_vars

\* C5 witness: base 10000 and diff 5000 with 'dcb', ratio exactly 2.0, has
\* passed the validation.
C5_Witness ==
  /\ step = "LoadDiffCached" /\ pc = "flush"
  /\ iterationResult.loadBase.transferSize = Num(10000)
  /\ iterationResult.loadDiff.transferSize = Num(5000)
  /\ iterationResult.loadDiff.contentEncoding = "dcb"

\* C6: a cached step passes only with status ok and deliveryType 'cache';
\* any other delivery type aborts the run and appends no sample.
C6_CachedGate ==
  [][/\ (pc = "gate" /\ step \in CachedSteps) =>
          IF ~NotOk(ret) /\ ret.deliveryType = "cache"
          THEN pc' # "aborted"
          ELSE /\ pc' = "aborted"
               /\ baseCacheTimes' = baseCacheTimes
               /\ diffCacheTimes' = diffCacheTimes
     /\ AbortIsFinal]_vars

\* C6 witness: LoadBaseCached aborted on an ok outcome whose deliveryType is
\* null, after LoadDiffCached had passed.
C6_Witness ==
  /\ pc = "aborted" /\ step = "LoadBaseCached"
  /\ iterationResult.loadBaseCached # Null
  /\ iterationResult.loadBaseCached.status = "ok"
  /\ iterationResult.loadBaseCached.deliveryType = "null"

\* C7: a flush failure at Init of iteration 1 aborts the run with no session
\* launched, no record appended and no sample collected.
C7_FlushFailureAtFirstInit ==
  (flushFailures >= 1 /\ i = 1 /\ step = "Init") =>
    /\ pc = "aborted"
    /\ sessions = 0
    /\ allResults = <<>>
    /\ baseCacheTimes = <<>> /\ diffCacheTimes = <<>>

\* C7 witness: the first flush of the run has failed.
C7_Witness == flushFailures = 1 /\ flushes = 1 /\ i = 1 /\ step = "Init"

\* C8: a failed flush, at any step of any iteration, ends the run as
\* aborted: no flush is tried again and no session is launched after it.
C8_FlushFailureIsFatal ==
  [][/\ flushFailures' > flushFailures =>
          pc' = "aborted" /\ sessions' = sessions
     /\ flushFailures >= 1 => pc = "aborted" /\ UNCHANGED vars]_vars

\* C8 witness: the flush before LoadDiff of the second iteration has failed.
C8_Witness ==
  flushFailures = 1 /\ i = 2 /\ step = "LoadDiff" /\ pc = "aborted"

\* C9: statistics and report exist only after every configured iteration has
\* passed all its gates; a run that aborts has neither.
C9_NoPartialReport ==
  /\ (pc \in PostLoop \/ stats # NoStats \/ report # Null) =>
       /\ Len(allResults) = ITERATIONS
       /\ \A k \in 1..Len(allResults) : AllGatesPassed(allResults[k])
       /\ flushFailures = 0
       /\ thrown \in {"none", "expect failed"}
  /\ pc = "aborted" => stats = NoStats /\ report = Null

\* C9 witness: the run aborted in its second iteration, one record appended.
C9_Witness == pc = "aborted" /\ Len(allResults) = 1 /\ report = Null

C11_FinallyStep ==
  /\ (pc = "exec" /\ epc = "closePage") =>
       /\ thrown' = thrown /\ ret' = ret
       /\ epc' = "closeContext"
  /\ (pc = "exec" /\ epc = "closeContext") =>
       /\ thrown' = thrown /\ ret' = ret
       /\ context' # "open"
       /\ epc' = "return"
  /\ (pc = "exec" /\ epc = "return") =>
       /\ thrown' = thrown /\ ret' = ret
       /\ pc' = IF thrown = "none" THEN "gate" ELSE "aborted"

\* C11: a close that fails is swallowed. Closing the page and closing the
\* context change neither the outcome the session produced nor the error it
\* is propagating, whether the close succeeds or is rejected; after the page
\* close, failed or not, the context close is attempted; and a session with
\* an outcome and no error reaches its gate whatever the closes did.
C11_CloseFailureSwallowed == [][C11_FinallyStep]_vars

\* C11 witness: a session produced an ok outcome, both its page close and
\* its context close were rejected, and it returns without an error.
C11_Witness ==
  /\ pc = "exec" /\ epc = "return"
  /\ page = "closeFailed" /\ context = "closeFailed"
  /\ thrown = "none" /\ ret # Null /\ ret.status = "ok"

C13_LaunchStep ==
  sessions' = sessions + 1 =>
    /\ flushFailures = 0
    /\ flushes = sessions + 1
    /\ pc = "exec" /\ epc = "launch"

\* C13: every launch of a session comes right after a flush that succeeded.
\* At each launch no flush has failed so far and the flushes made are one
\* more than the sessions launched before, so a successful flush lies between
\* any two consecutive launches and no session follows a failed flush.
C13_FlushBeforeEveryLaunch == [][C13_LaunchStep]_vars

\* C13 witness: the second session was launched after the second successful
\* flush.
C13_Witness ==
  /\ sessions = 2 /\ flushes = 2 /\ flushFailures = 0
  /\ pc = "exec" /\ epc = "newPage" /\ step = "LoadBase"

\* ------------------------------------------------------------------ C14
\* The sessions launched so far in the running iteration.
SessionsOfIteration == (5 * (i - 1) + 1) .. sessions

C14_WipeStep ==
  (\/ wipes' # wipes
   \/ ~(userDataDir.entries \subseteq userDataDir'.entries)
   \/ ~(cacheDir.entries \subseteq cacheDir'.entries)
   \/ (userDataDir.exists /\ ~userDataDir'.exists)
   \/ (cacheDir.exists /\ ~cacheDir'.exists)) =>
    /\ pc = "clear" /\ step = "Init" /\ sessions = 5 * (i - 1)
    /\ wipes' = wipes + 1

C14_Counted ==
  /\ pc = "clear" => wipes = i - 1
  /\ (step # "none" /\ pc \notin {"clear", "aborted"}) => wipes = i
  /\ pc \in PostLoop \cup {"loop"} => wipes = i - 1
  /\ (pc = "exec" /\ epc = "launch") =>
       /\ userDataDir.exists /\ cacheDir.exists
       /\ SessionsOfIteration \subseteq userDataDir.entries
       /\ SessionsOfIteration \subseteq cacheDir.entries

\* C14: the profile directory is wiped exactly once per iteration, by the
\* clearing that precedes the Init session, and by nothing else: only that
\* step removes anything from the profile or cache directory, the wipes made
\* equal the iterations started, and when a session is launched everything
\* the earlier sessions of the same iteration wrote is still there.
C14_WipedOncePerIteration == [][C14_WipeStep /\ C14_Counted']_vars

\* C14 witness: the last session of the second iteration is launched after
\* two wipes, with what the four sessions before it wrote in place.
C14_Witness ==
  /\ pc = "exec" /\ epc = "launch" /\ step = "LoadBaseCached" /\ i = 2
  /\ wipes = 2
  /\ userDataDir = Dir(6 .. 9) /\ cacheDir = Dir(6 .. 9)

\* ------------------------------------------------------------------ C15
\* The run, started with or without CDT_CACHE_DIR.
SpecEnv == InitEnv /\ [][Next]_vars

\* C15: after the clearing that starts an iteration, the cache directory the
\* browser is launched with exists and holds no entry written by a session
\* launched earlier, with the default cache directory and with one supplied
\* through CDT_CACHE_DIR alike.
C15_ColdCacheDir ==
  (step = "Init" /\ pc \in {"flush", "exec"} /\ epc \in {"idle", "launch"}) =>
    /\ cacheDir.exists
    /\ cacheDir.entries \cap (1 .. sessions) = {}

C17_RecordsInOrder ==
  /\ Len(allResults) = i - 1
  /\ \A k \in 1 .. Len(allResults) :
       allResults[k].iteration = k /\ AllGatesPassed(allResults[k])
  /\ step # "none" => iterationResult.iteration = i
  /\ pc \in PostLoop => Len(allResults) = ITERATIONS

\* C17 witness: the loop is over with the records of iterations 1 and 2.
C17_Witness ==
  /\ pc = "stats" /\ Len(allResults) = ITERATIONS
  /\ allResults[1].iteration = 1 /\ allResults[2].iteration = 2

\* ------------------------------------------------------------------ C18
C18_GateStep ==
  /\ (pc \in {"gate", "validate"} /\ ~GatePassed(iterationResult', step)) =>
       pc' = "aborted" /\ thrown' # "none"
  /\ flushFailures' > flushFailures => pc' = "aborted" /\ thrown' # "none"
  /\ AbortIsFinal

C18_Success ==
  /\ pc = "passed" =>
       /\ Len(allResults) = ITERATIONS
       /\ \A k \in 1 .. ITERATIONS : AllGatesPassed(allResults[k])
       /\ sessions = 5 * ITERATIONS
       /\ flushes = 5 * ITERATIONS /\ flushFailures = 0
       /\ thrown = "none"
  /\ (thrown # "none" \/ flushFailures > 0) =>
       pc \in {"aborted", "failed", "exec"}

\* C18: the run ends in success only if every iteration passed all six
\* gates after five flushed sessions; a gate that fails or a flush that fails
\* aborts the run at that step, and an aborted run does nothing more.
C18_SuccessOnlyIfAllGates == [][C18_GateStep /\ C18_Success']_vars

\* C18 witness: the run ended in success after all ten sessions.
C18_Witness ==
  /\ pc = "passed" /\ sessions = 5 * ITERATIONS
  /\ AllGatesPassed(allResults[1]) /\ AllGatesPassed(allResults[2])

\* ------------------------------------------------------------------ C19
\* C19 as stated: every report of a run that passed all its gates contains
\* the comparison block.
C19_ComparisonInEveryReport ==
  (pc \in PostLoop /\ report # Null) => report.comparison # Null

\* C19, amended: the report of a run that passed all its gates contains the
\* comparison block exactly when the durations collected for the base and
\* those collected for the diff both have a mean greater than 0.
C19_ComparisonWhenMeansPositive ==
  (pc \in PostLoop /\ report # Null) =>
    /\ Len(allResults) = ITERATIONS
    /\ \A k \in 1 .. ITERATIONS : AllGatesPassed(allResults[k])
    /\ report.comparison # Null <=>
         (SumSeq(baseCacheTimes) > 0 /\ SumSeq(diffCacheTimes) > 0)

\* C19 witness: a run that passed ends with a report holding the comparison
\* block.
C19_Witness ==
  /\ pc = "passed" /\ report # Null /\ report.comparison # Null
  /\ report.comparison.label = "slower"

\* ------------------------------------------------------------------ C20
\* C20 as stated: the report holds the comparison block if and only if both
\* means are nonzero.
C20_ComparisonIffNonzero ==
  report # Null =>
    (report.comparison # Null <=>
       (stats.base.mean.num # 0 /\ stats.diff.mean.num # 0))

\* C20, amended: the report holds the comparison block if and only if both
\* means are greater than 0.
C20_ComparisonIffPositive ==
  report # Null =>
    (report.comparison # Null <=>
       (stats.base.mean.num > 0 /\ stats.diff.mean.num > 0))

\* C20 witness: a report with the comparison block, of two positive means.
C20_Witness ==
  /\ report # Null /\ report.comparison # Null
  /\ baseCacheTimes = <<7, 10>> /\ diffCacheTimes = <<20>>

\* ------------------------------------------------------------------ C21
\* The lines that begin with the sentinel, those of them whose payload
\* decodes, and the first of a set of line numbers.
SentinelAt(msgs) == { k \in 1..Len(msgs) : msgs[k].sentinel }
DecodableAt(msgs) == { k \in SentinelAt(msgs) : msgs[k].json.ok }
FirstOf(S) == CHOOSE k \in S : \A j \in S : k <= j

\* The settle wait is over and the parser has run on the collected lines.
Parsed == pc = "exec" /\ epc = "closePage" /\ thrown = "none"

C22_MalformedSkipped ==
  Parsed =>
    LET D == DecodableAt(consoleMessages)
    IN  /\ D = {} => ret = Null
        /\ D # {} => ret = consoleMessages[FirstOf(D)].json.value

\* C22 witness: a well-formed result line right after a malformed one is
\* returned.
C22_Witness ==
  /\ Parsed
  /\ Len(consoleMessages) >= 2
  /\ consoleMessages[1] = MalformedLine
  /\ consoleMessages[2].sentinel /\ consoleMessages[2].json.ok
  /\ ret = consoleMessages[2].json.value /\ ret # Null

\* ------------------------------------------------------------------ C23
\* The samples of a variant and the summary computed from them.
SamplesOf(v) == IF v = "base" THEN baseCacheTimes ELSE diffCacheTimes
Variants == {"base", "diff"}
StatsDone == stats.base # Null /\ stats.diff # Null

\* The smallest and the largest value of a non-empty sequence, the exact sum
\* of its first k values, and the order of the rationals.
Smallest(xs) ==
  CHOOSE x \in {xs[k] : k \in 1..Len(xs)} : \A k \in 1..Len(xs) : x <= xs[k]
Largest(xs) ==
  CHOOSE x \in {xs[k] : k \in 1..Len(xs)} : \A k \in 1..Len(xs) : x >= xs[k]
ExactSum(xs, k) == SumSeq(SubSeq(xs, 1, k))
RatLe(a, b) == a.num * b.den <= b.num * a.den
Between(lo, q, hi) == RatLe(Rat(lo, 1), q) /\ RatLe(q, Rat(hi, 1))

\* No addition of the running sum is rounded.
SumIsExact(xs) ==
  \A k \in 1..Len(xs) : Fl(Rat(ExactSum(xs, k), 1)) = Rat(ExactSum(xs, k), 1)

\* C23 as stated: for every non-empty sample sequence min and max are the
\* smallest and the largest sample, min <= median <= max and
\* min <= mean <= max.
C23_MeanAndMedianInRange ==
  StatsDone =>
    \A v \in Variants :
      Len(SamplesOf(v)) > 0 =>
        /\ stats[v].min = Smallest(SamplesOf(v))
        /\ stats[v].max = Largest(SamplesOf(v))
        /\ Between(stats[v].min, stats[v].median, stats[v].max)
        /\ Between(stats[v].min, stats[v].mean, stats[v].max)

\* C23, amended: for every non-empty sample sequence min and max are the
\* smallest and the largest sample and min <= median <= max; and
\* min <= mean <= max holds for one or two samples, and for more samples
\* whenever no addition of the running sum is rounded.
C23_MeanInRangeWhenSumExact ==
  StatsDone =>
    \A v \in Variants :
      Len(SamplesOf(v)) > 0 =>
        /\ stats[v].min = Smallest(SamplesOf(v))
        /\ stats[v].max = Largest(SamplesOf(v))
        /\ Between(stats[v].min, stats[v].median, stats[v].max)
        /\ (Len(SamplesOf(v)) <= 2 \/ SumIsExact(SamplesOf(v))) =>
             Between(stats[v].min, stats[v].mean, stats[v].max)

\* C23 witness: three unsorted samples whose sums are exact, summarised with
\* the mean and the median between the smallest and the largest.
C23_Witness ==
  /\ StatsDone
  /\ baseCacheTimes = <<30, 10, 20>>
  /\ stats.base.min = 10 /\ stats.base.max = 30
  /\ stats.base.mean = Rat(20, 1) /\ stats.base.median = Rat(20, 1)

\* ------------------------------------------------------------------ C24
\* C24: on an empty sample sequence the summary has mean, median, min, max
\* and stdDev (the root of stdDevSq) all 0 and no samples, for either
\* variant; and the run that collected no durations goes through the
\* statistics on to the report without an error.
C24_EmptySamplesAllZero ==
  /\ StatsDone =>
       /\ thrown = "none" \/ pc = "failed"
       /\ \A v \in Variants :
            SamplesOf(v) = <<>> =>
              /\ stats[v].samples = <<>>
              /\ stats[v].mean = Rat(0, 1) /\ stats[v].median = Rat(0, 1)
              /\ stats[v].min = 0 /\ stats[v].max = 0
              /\ stats[v].stdDevSq = Rat(0, 1)
  /\ (pc \in {"expect", "passed", "failed"}) => StatsDone /\ report # Null

\* C24 witness: both iterations passed their gates without a duration in any
\* cached outcome, and the report was made from two empty summaries.
C24_Witness ==
  /\ pc = "expect" /\ Len(allResults) = ITERATIONS
  /\ baseCacheTimes = <<>> /\ diffCacheTimes = <<>>
  /\ stats.base.mean = Rat(0, 1) /\ stats.diff.mean = Rat(0, 1)
  /\ report # Null

\* ------------------------------------------------------------------ C25
\* The samples as numbers, and the k-th smallest of them.
AsNumbers(xs) == [k \in 1..Len(xs) |-> Rat(xs[k], 1)]
KthSmallest(xs, k) ==
  CHOOSE x \in {xs[j] : j \in 1..Len(xs)} :
    /\ Cardinality({j \in 1..Len(xs) : xs[j] < x}) < k
    /\ Cardinality({j \in 1..Len(xs) : xs[j] <= x}) >= k

\* C25: for every non-empty sample sequence, in whatever order, the mean is
\* the sum of the samples divided by their count, and the median is the
\* middle one of the samples in ascending order for an odd count and the
\* average of the two middle ones for an even count.
C25_MeanAndMedian ==
  StatsDone =>
    \A v \in Variants :
      LET xs == SamplesOf(v)
          n == Len(xs)
      IN  n > 0 =>
            /\ stats[v].mean = FDiv(Reduce(Rat(0, 1), AsNumbers(xs)), n)
            /\ n % 2 = 1 =>
                 stats[v].median = Rat(KthSmallest(xs, (n + 1) \div 2), 1)
            /\ n % 2 = 0 =>
                 stats[v].median =
                   FDiv(FAdd(Rat(KthSmallest(xs, n \div 2), 1),
                             Rat(KthSmallest(xs, n \div 2 + 1), 1)), 2)

\* C25 witness: [10, 20, 30] gives mean 20, median 20, min 10, max 30, and
\* the diff side holds the summary of a single sample.
C25_Witness ==
  /\ StatsDone
  /\ baseCacheTimes = <<10, 20, 30>> /\ diffCacheTimes = <<7>>
  /\ stats.base.mean = Rat(20, 1) /\ stats.base.median = Rat(20, 1)
  /\ stats.base.min = 10 /\ stats.base.max = 30
  /\ stats.diff.median = Rat(7, 1)

\* ------------------------------------------------------------------ C26
\* C26: the standard deviation is the population one: its square, the
\* radicand stdDevSq, is the sum of the squared deviations of the samples
\* from the mean divided by the count N, for every non-empty sample sequence.
C26_PopulationStdDev ==
  StatsDone =>
    \A v \in Variants :
      LET xs == SamplesOf(v)
          n == Len(xs)
          dev(k) == FSub(Rat(xs[k], 1), stats[v].mean)
      IN  n > 0 =>
            stats[v].stdDevSq =
              FDiv(Reduce(Rat(0, 1), [k \in 1..n |-> FMul(dev(k), dev(k))]),
                   n)

\* C26 witness: [-4, 0] has mean -2 and squared deviations 4 and 4, so the
\* square of its standard deviation is 8 / 2 = 4 (and not 8 / 1).
C26_Witness ==
  /\ StatsDone
  /\ baseCacheTimes = <<-4, 0>>
  /\ stats.base.mean = Rat(-2, 1) /\ stats.base.stdDevSq = Rat(4, 1)

\* ------------------------------------------------------------------ C27
\* The durations, in order, of the outcomes in slot s of the records that
\* passed the gate of s with a duration that is a number.
SamplesFrom(recs, s) ==
  LET kept == SelectSeq(recs, LAMBDA r :
                /\ GatePassed(r, s)
                /\ SlotOf(r, s).duration.t = "number")
  IN  [k \in 1..Len(kept) |-> SlotOf(kept[k], s).duration.v]

\* The appended records, and with them the record of the running iteration.
RecordsSoFar ==
  IF step = "none" THEN allResults ELSE Append(allResults, iterationResult)

C27_PushStep ==
  /\ diffCacheTimes' # diffCacheTimes =>
       /\ pc = "gate" /\ step = "LoadDiffCached" /\ action = "load_diff"
       /\ ret # Null /\ ret.status = "ok" /\ ret.deliveryType = "cache"
       /\ ret.duration.t = "number"
       /\ diffCacheTimes' = Append(diffCacheTimes, ret.duration.v)
  /\ baseCacheTimes' # baseCacheTimes =>
       /\ pc = "gate" /\ step = "LoadBaseCached" /\ action = "load_base"
       /\ ret # Null /\ ret.status = "ok" /\ ret.deliveryType = "cache"
       /\ ret.duration.t = "number"
       /\ baseCacheTimes' = Append(baseCacheTimes, ret.duration.v)

C27_Provenance ==
  /\ diffCacheTimes = SamplesFrom(RecordsSoFar, "LoadDiffCached")
  /\ baseCacheTimes = SamplesFrom(allResults, "LoadBaseCached")

\* C27: a sample sequence changes only by the append of one duration, at the
\* gate of LoadDiffCached (diff) or LoadBaseCached (base), taken from that
\* step's outcome with status ok and deliveryType 'cache'; so the diff
\* samples are the durations of the LoadDiffCached outcomes that passed their
\* gate and the base samples those of the LoadBaseCached outcomes, one at
\* most per step, and no duration of a network load or of an outcome that
\* failed a gate is among them.
C27_SamplesFromCachedSteps == [][C27_PushStep /\ C27_Provenance']_vars

\* C27 witness: after two iterations the base samples are the durations 5 and
\* 0 of the two LoadBaseCached outcomes and the diff samples the one
\* duration 7 that a LoadDiffCached outcome carried.
C27_Witness ==
  /\ pc = "stats"
  /\ baseCacheTimes = <<5, 0>> /\ diffCacheTimes = <<7>>
  /\ allResults[1].loadBaseCached.duration = Num(5)
  /\ allResults[2].loadBaseCached.duration = Num(0)
  /\ allResults[1].loadDiffCached.duration = Null
  /\ allResults[2].loadDiffCached.duration = Num(7)
  /\ allResults[1].loadBase.duration = Num(9)

\* ------------------------------------------------------------------ C28
\* The run as the event loop executes it: whenever the test body can take
\* its next step (the awaited operation has returned or failed), it does.
SpecLive == Spec /\ WF_vars(Next)

\* The run is over: the test passed, failed its final expectations, or was
\* aborted by an error.
Terminated == pc \in {"passed", "failed", "aborted"}

\* How far the run has come: the iteration, the step in it, the place in the
\* step; the end of the run is the last position.
PlaceInStep ==
  CASE pc = "flush" -> 0
    [] pc = "exec" ->
         (CASE epc = "launch" -> 1 [] epc = "newPage" -> 2
            [] epc = "goto" -> 3 [] epc = "wait" -> 4
            [] epc = "closePage" -> 5 [] epc = "closeContext" -> 6
            [] epc = "return" -> 7)
    [] pc = "gate" -> 8
    [] pc = "validate" -> 9
Position ==
  CASE Terminated -> 100 * (ITERATIONS + 2)
    [] pc = "loop" -> 100 * i
    [] pc = "clear" -> 100 * i + 1
    [] pc = "stats" -> 100 * i + 1
    [] pc = "report" -> 100 * i + 2
    [] pc = "expect" -> 100 * i + 3
    [] OTHER -> 100 * i + 10 * StepNo(step) + PlaceInStep

C28_Bounded ==
  /\ i \in 1 .. ITERATIONS + 1
  /\ sessions <= 5 * ITERATIONS /\ flushes <= 5 * ITERATIONS
  /\ sessions <= flushes
  /\ pc \in PostLoop => sessions = 5 * ITERATIONS /\ flushes = 5 * ITERATIONS
  /\ pc = "aborted" =>
       /\ thrown # "none"
       /\ step # "none" /\ i <= ITERATIONS
       /\ sessions <= 5 * (i - 1) + SessionNo(step)

\* C28: every run terminates. As long as the run is not over it has a next
\* step to take, and every step moves it strictly forward through the
\* finitely many positions of ITERATIONS iterations, never back and never in
\* place; it makes at most 5 * ITERATIONS flushes and session launches, is
\* past the loop only after exactly 5 * ITERATIONS of each, and otherwise
\* ends aborted with its error.  (Before the statistics the next step is
\* CalculateStats, whose only condition is the place in the test body.)
C28_Terminates ==
  /\ [](~Terminated /\ pc # "stats" => ENABLED Next)
  /\ [](Terminated => ~ENABLED Next)
  /\ [][Position' > Position]_vars
  /\ []C28_Bounded

\* C28 witness: the run ended after its tenth session.
C28_Witness ==
  /\ Terminated /\ pc = "passed"
  /\ sessions = 5 * ITERATIONS /\ flushes = 5 * ITERATIONS

\* ------------------------------------------------------------------ C29
\* Every slot of the record holds an ok outcome, the cached ones from cache.
RecordComplete(rec) ==
  /\ \A s \in SessionSteps : ~NotOk(SlotOf(rec, s))
  /\ \A s \in CachedSteps : SlotOf(rec, s).deliveryType = "cache"

C29_Populated ==
  /\ \A k \in 1 .. Len(allResults) : RecordComplete(allResults[k])
  /\ pc = "aborted" =>
       /\ iterationResult.iteration = i
       /\ \A k \in 1 .. Len(allResults) : allResults[k].iteration < i

C29_RecordStep ==
  /\ Len(allResults') >= Len(allResults)
  /\ \A k \in 1 .. Len(allResults) : allResults'[k] = allResults[k]
  /\ allResults' # allResults =>
       /\ allResults' = Append(allResults, iterationResult')
       /\ pc = "gate" /\ step = "LoadBaseCached" /\ pc' = "loop"
  /\ pc' = "aborted" => allResults' = allResults

\* C29: every record in allResults has its five outcome slots filled with ok
\* outcomes and its two cached outcomes served from cache; when the run
\* aborts, the record of the iteration in progress is not in allResults,
\* whatever slots it had filled; and a step changes allResults only by
\* appending the finished record at the end of step 5, leaving the records
\* already there as they were.
C29_RecordsCompleteAndKept == []C29_Populated /\ [][C29_RecordStep]_vars

\* C29 witness: iteration 2 aborted at a cached step with its earlier slots
\* filled, and the record of iteration 1 is the only one appended.
C29_Witness ==
  /\ pc = "aborted" /\ step \in CachedSteps
  /\ iterationResult.iteration = 2 /\ ~NotOk(iterationResult.loadDiff)
  /\ Len(allResults) = 1 /\ RecordComplete(allResults[1])

\* ------------------------------------------------------------------ C30
\* A transferSize that is absent, null or 0.
NoBytes == {Undefined, Null, Num(0)}

C30_ValidateStep ==
  LET base == iterationResult.loadBase.transferSize
      diff == iterationResult.loadDiff.transferSize
  IN  (pc = "validate" /\ iterationResult.loadDiff.contentEncoding = "dcb") =>
        /\ diff \in NoBytes =>
             step' = "LoadDiffCached" /\ pc' = "flush" /\ thrown' = "none"
        /\ (base \in NoBytes /\ diff \notin NoBytes /\ diff.v > 0) =>
             /\ pc' = "aborted"
             /\ thrown' = "FATAL: CDT compression insufficient"

\* C30: with diff encoding 'dcb', the validation passes whenever the LoadDiff
\* transferSize is absent, null or 0, whatever the LoadBase transferSize is,
\* and it aborts the run for an insufficient ratio whenever the LoadBase
\* transferSize is absent, null or 0 and the LoadDiff transferSize is
\* positive.
C30_MissingSizeIsZero == [][C30_ValidateStep]_vars

\* C30 witness: the validation has passed with both sizes absent.
C30_Witness ==
  /\ step = "LoadDiffCached" /\ pc = "flush" /\ thrown = "none"
  /\ iterationResult.loadDiff.contentEncoding = "dcb"
  /\ iterationResult.loadBase.transferSize = Undefined
  /\ iterationResult.loadDiff.transferSize = Undefined
  /\ iterationResult.loadDiffCached = Null

\* ------------------------------------------------------------------ C31
C31_ValidateStep ==
  pc = "validate" =>
    /\ iterationResult.loadDiff.contentEncoding # "dcb" =>
         pc' = "aborted" /\ thrown' = "FATAL: CDT not working"
    /\ thrown' = "FATAL: CDT compression insufficient" =>
         iterationResult.loadDiff.contentEncoding = "dcb"

\* C31: the validation looks at the encoding before the size ratio. A diff
\* whose encoding is not 'dcb' aborts the run with the encoding diagnostic,
\* whatever the two sizes are, and the size-ratio diagnostic is raised only
\* for a diff encoded 'dcb'.
C31_EncodingBeforeRatio == [][C31_ValidateStep]_vars

\* C31 witness: the run was aborted with the encoding diagnostic although the
\* base was smaller than twice the diff.
C31_Witness ==
  /\ pc = "aborted" /\ step = "ValidateCDT"
  /\ thrown = "FATAL: CDT not working"
  /\ iterationResult.loadDiff.contentEncoding = "br"
  /\ Bytes(iterationResult.loadBase) < 2 * Bytes(iterationResult.loadDiff)

\* ------------------------------------------------------------------ C32
\* The sweep is over: report written, prerequisites failed, or main abandoned.
SweepOver == spc \in {"done", "exit", "abandoned"}

\* The values held by a sequence.
Range(seq) == {seq[k] : k \in 1 .. Len(seq)}

\* The iteration being left failed: it never got to its timings.
FailedIteration == spc = "advance" /\ timings = Null

C32_SweepStep ==
  /\ (spc \in {"setup", "npmTest"} /\ spc' \notin {"npmTest", "store"}) =>
       /\ spc' = "advance" /\ timings' = Null
       /\ UNCHANGED arrays /\ RESULTS_FILE' = RESULTS_FILE
  /\ FailedIteration =>
       /\ spc' = "while" /\ delay' = Wrap(delay + INCREMENT)
       /\ UNCHANGED arrays /\ RESULTS_FILE' = RESULTS_FILE
  /\ spc = "while" =>
       /\ UNCHANGED arrays /\ RESULTS_FILE' = RESULTS_FILE
       /\ spc' = IF delay <= END_DELAY THEN "setup" ELSE "report"
  /\ spc = "report" =>
       /\ spc' = "done"
       /\ REPORT_FILE'.exists /\ Len(REPORT_FILE'.rows) = Len(DELAYS)

C32_BetweenTests ==
  /\ Len(THROUGHPUTS) = Len(DELAYS)
  /\ Len(DCB_READ_TIMES) = Len(DELAYS)
  /\ Len(BROTLI_READ_TIMES) = Len(DELAYS)
  /\ Len(GAPS) = Len(DELAYS)
  /\ Len(RESULTS_FILE.rows) = Len(DELAYS)
  /\ \A k \in 1 .. Len(DELAYS) : RESULTS_FILE.rows[k].delay = DELAYS[k]
  /\ FailedIteration => Num(delay) \notin Range(DELAYS)
  /\ spc = "exit" => DELAYS = <<>> /\ ~RESULTS_FILE.exists
  /\ spc \in {"report", "done"} => delay > END_DELAY
  /\ (~SweepOver /\ ~(spc = "while" /\ test_count = MaxTests)) =>
       ENABLED NextSweep

\* C32: a failed throttling setup or a failed benchmark run sends the sweep
\* on to the next delay value with the result arrays and the CSV file as they
\* were, so the failed delay has no entry and no row; the loop is left only
\* with a delay above the end delay, and the report is then written, one row
\* for each entry; after the prerequisites nothing ends the sweep early; and
\* the five result arrays and the CSV rows have the same length in every
\* state.
C32_FailureDoesNotStopSweep == []C32_BetweenTests /\ [][C32_SweepStep]_vars

\* C32 witness: the report of a sweep of two throttled tests whose first test
\* failed: it holds the control row and the row of the second delay.
C32_Witness ==
  /\ spc = "done" /\ test_count = 2
  /\ START_DELAY = 1 /\ INCREMENT = 2
  /\ DELAYS = <<ControlLabel, Num(3)>>
  /\ Len(REPORT_FILE.rows) = 2 /\ REPORT_FILE.rows[2].delay = Num(3)

\* ------------------------------------------------------------------ C33
\* floor((end - start) / increment) + 1 for start <= end and increment > 0.
Announced == (END_DELAY - START_DELAY) \div INCREMENT + 1

\* The k-th delay value of the sweep.
DelayNo(k) == START_DELAY + (k - 1) * INCREMENT

\* The throttled tests are the delay values start, start + increment, ... in
\* this order, each once: the test in progress is test number test_count, on
\* the delay value of that number, which is not above the end delay; between
\* tests the next delay value is up; the delays stored are those of tests
\* made, in increasing order; and once the loop is left exactly the announced
\* number of tests was made.
OnSchedule ==
  /\ spc \in {"setup", "npmTest", "store", "advance"} =>
       /\ delay = DelayNo(test_count) /\ delay <= END_DELAY
       /\ test_count <= Announced
  /\ spc = "while" => delay = DelayNo(test_count + 1)
  /\ \A k \in 2 .. Len(DELAYS) :
       /\ \E n \in 1 .. MaxTests : n <= Announced /\ DELAYS[k] = Num(DelayNo(n))
       /\ k > 2 => DELAYS[k - 1].v < DELAYS[k].v
  /\ spc \in {"while", "setup", "npmTest", "store", "advance", "report",
              "done"} =>
       total_tests = Announced /\ Len(DELAYS) >= 1 /\ DELAYS[1] = ControlLabel
  /\ spc \in {"report", "done"} => test_count = Announced

\* The loop was left, or never entered.
LoopLeft == spc \in {"report", "done", "abandoned"}

\* C33 as stated: on schedule whenever start <= end and increment > 0, and
\* the loop never left whenever start <= end and increment <= 0.
C33_ScheduleAndNonTermination ==
  /\ (START_DELAY <= END_DELAY /\ INCREMENT > 0) => OnSchedule
  /\ (START_DELAY <= END_DELAY /\ INCREMENT <= 0) => ~LoopLeft

\* What bash computes stays within its integers: the difference and the
\* total of the announcement, and the delay value that ends the loop.
InRange ==
  /\ END_DELAY - START_DELAY <= MaxInt
  /\ Announced <= MaxInt
  /\ END_DELAY + INCREMENT <= MaxInt

\* The delay has not wrapped around on its way down: the delay value of
\* the test in progress, or of the next test, is one of bash's integers.
NotWrapped ==
  /\ spc \in {"setup", "npmTest", "store", "advance"} =>
       DelayNo(test_count) >= MinInt
  /\ spc \in {"while", "report", "done"} => DelayNo(test_count + 1) >= MinInt

\* C33: for start <= end and increment > 0, with end - start, the total and
\* end + increment within bash's integers, the sweep tests the delay values
\* start, start + increment, ... that are <= end, in increasing order and
\* each once, and has made exactly floor((end - start) / increment) + 1
\* throttled tests, the announced total, after one control run when it
\* leaves the loop. With increment < 0 and start <= end the loop is not left
\* unless the delay wraps around. With increment = 0 the total cannot be
\* computed: main is abandoned after the control run, without a throttled
\* test and without a report.
C33_ScheduleInRange ==
  /\ (START_DELAY <= END_DELAY /\ INCREMENT > 0 /\ InRange) => OnSchedule
  /\ (START_DELAY <= END_DELAY /\ INCREMENT < 0 /\ NotWrapped) =>
       spc \notin {"report", "done"}
  /\ INCREMENT # 0 => spc # "abandoned"
  /\ INCREMENT = 0 =>
       /\ spc \in {"prerequisites", "exit", "control", "total", "abandoned"}
       /\ spc = "abandoned" =>
            /\ DELAYS = <<ControlLabel>> /\ Len(RESULTS_FILE.rows) = 1
            /\ test_count = 0 /\ ~REPORT_FILE.exists

\* C33 witness: the sweep from 1 to 6 by 2 is done after its third test, as
\* announced.
C33_Witness ==
  /\ spc = "done" /\ START_DELAY = 1 /\ END_DELAY = 6 /\ INCREMENT = 2
  /\ test_count = 3 /\ total_tests = 3
  /\ DELAYS = <<ControlLabel, Num(1), Num(3), Num(5)>>

====
